---- MODULE Spec2Model ----
(***************************************************************************)
(* A model of the Wordle rule validator's Node pipeline (test-gemini.ts):  *)
(* the retrying Gemini request executor, the paginated word-list          *)
(* collector, and the rule-language compiler with its evaluator.          *)
(* Each component has its own specification over the shared variables.    *)
(***************************************************************************)
EXTENDS Integers, Sequences, FiniteSets, TLC

VARIABLES
    \* ---- handleGeminiApiCall
    gPc,         \* position of the call: idle, fetching, body, errbody, sleeping, returned, thrown
    apiKey,      \* TRUE when a non-empty key was passed
    maxRetries,  \* parameter maxRetries
    delay0,      \* the value of parameter delay at the call
    delay,       \* the local variable delay
    i,           \* the loop index
    timers,      \* attempt indexes whose setTimeout is armed
    gAttempts,   \* outcome of every attempt so far, in order
    gWaits,      \* every backoff wait started so far, in order
    gError,      \* the error the call threw
    \* ---- fetchWordListByPosition
    cPc,         \* idle, fetching, reading, pausing, done
    cRules,      \* the RuleSet passed in
    currentPage, \* local currentPage
    allWords,    \* local allWords
    cRequests,   \* page numbers requested so far, in order
    cResponses,  \* outcome of every page request so far, in order
    cPauses,     \* every setTimeout wait of the collector: <<after page, ms>>
    cErrorLogged,\* TRUE once the catch block logged an error
    cResult,     \* the returned list
    cNotice,     \* TRUE once line 309 logged that there is no exact position
    \* ---- parseRules / checkRules
    rPc,         \* start, compiled, checked
    rLines,      \* the lines the rule text is made of, as indexes of RuleLinesLibrary
    dslRules,    \* the rule text, a sequence of characters
    word,        \* the token to evaluate
    rules,       \* the compiled RuleSet
    verdict,     \* the result of checkRules
    \* ---- validateWordExistence
    WORD_CACHE,  \* the module-level cache: a map from cache key to verdict
    vPc,         \* idle, fetching
    vWord,       \* the lower-cased word of the call in progress
    requiredLength, \* parameter requiredLength of the call in progress
    vCalls,      \* every call so far, in order, with what it did and returned
    \* ---- main
    mPc,         \* idle, start, translate, translating, translated, collecting, validating,
                 \* pausing, done, failed (an error is on its way to the catch block), exited
    prompt,      \* parameter prompt of generateDslRules
    dslResult,   \* what generateDslRules returned
    mError,      \* the message of the error thrown inside main's try block
    candidateWords, \* local candidateWords
    mI,          \* the index i of the validation loop
    validWords,  \* local validWords
    mChecked,    \* the tokens given to checkRules, in order
    mLog,        \* the diagnostics written to the console, in order
    mExit,       \* the code given to process.exit, if any
    \* ---- extractWordsFromHtml
    xPc,         \* start, extracted
    xParts,      \* the page text as the indexes of its pieces in HtmlLibrary
    xHtml,       \* parameter html
    xWordLength, \* parameter wordLength
    xWords,      \* the returned list
    \* ---- fetchWordListByPosition of test-wordlist-fetch.ts
    fPc,         \* idle, fetching (a fetchWordsFromUrl call is pending), done
    fRules,      \* parameter rules
    fLetter,     \* the letter the word lists are asked for (letter, bestLetter)
    fPositions,  \* the positions the word lists are asked for, in order
    fAllWords,   \* local allWords
    fRequests,   \* the fetchWordsFromUrl calls so far, in order
    fOutcomes,   \* what each finished call returned, and whether it had failed
    fResult      \* the returned list

gVars == <<gPc, apiKey, maxRetries, delay0, delay, i, timers, gAttempts, gWaits, gError>>
cVars == <<cPc, cRules, currentPage, allWords, cRequests, cResponses, cPauses, cErrorLogged, cResult,
          cNotice>>
rVars == <<rPc, rLines, dslRules, word, rules, verdict>>
vVars == <<WORD_CACHE, vPc, vWord, requiredLength, vCalls>>
mVars == <<mPc, prompt, dslResult, mError, candidateWords, mI, validWords, mChecked, mLog, mExit>>
xVars == <<xPc, xParts, xHtml, xWordLength, xWords>>
fVars == <<fPc, fRules, fLetter, fPositions, fAllWords, fRequests, fOutcomes, fResult>>
vars == <<gVars, cVars, rVars, vVars, mVars, xVars, fVars>>

(***************************************************************************)
(* Bounds and program constants                                            *)
(***************************************************************************)
MaxRetriesBound == 5
GEMINI_TIMEOUT_MS == 20000
DefaultDelay == 1000
RATE_LIMIT == 429
NOT_FOUND == 404

\* The statuses the services are let to answer with.
Statuses == {200, NOT_FOUND, RATE_LIMIT, 500}

\* response.ok: a status in the range 200-299.
ResponseOk(status) == status >= 200 /\ status <= 299

NoError == [msg |-> "none", arg |-> 0]

(***************************************************************************)
(* handleGeminiApiCall                                                     *)
(***************************************************************************)
\* Line 76: the branch that waits and retries a response.
IsRateLimitRetry(status, idx, mr) == status = RATE_LIMIT /\ idx < mr - 1

\* Line 103: the catch block rethrows on the last attempt.
IsFinalAttempt(idx, mr) == idx = mr - 1

\* A fault: the delay grows by a fixed step instead of doubling.
NextDelayLinear(d) == d + DefaultDelay

\* Lines 79 and 109: delay *= 2.
NextDelay(d) == d * 2

\* A fault: the AbortError is rethrown as it is.
CaughtErrorAsIs(e) == e

\* Lines 99-101: an AbortError is replaced by the timeout error; any other
\* error is rethrown as it is.
CaughtError(e) ==
    IF e.msg = "AbortError"
    THEN [msg |-> "timed out after seconds", arg |-> GEMINI_TIMEOUT_MS \div 1000]
    ELSE e

\* Lines 90-94: the error thrown for a response that is neither ok nor retried.
HttpError(status) == [msg |-> "failed with status", arg |-> status]

Outcome(kind, status) == [kind |-> kind, status |-> status]

\* Lines 53-68: the loop head. With attempts left, arm the timer and send the
\* request; otherwise fall out of the loop to the throw of line 113.
EnterLoop(idx) ==
    /\ i' = idx
    /\ IF idx < maxRetries
       THEN /\ gPc' = "fetching"
            /\ timers' = timers \cup {idx}
            /\ gError' = gError
       ELSE /\ gPc' = "thrown"
            /\ timers' = timers
            /\ gError' = [msg |-> "after all retries", arg |-> 0]

\* Lines 96-110: the catch block, entered with error e during attempt i.
Catch(e) ==
    LET error == CaughtError(e) IN
    IF IsFinalAttempt(i, maxRetries)
    THEN /\ gPc' = "thrown"
         /\ gError' = error
         /\ UNCHANGED <<gWaits, i>>
    ELSE /\ gPc' = "sleeping"
         /\ gWaits' = Append(gWaits, [after |-> i, ms |-> delay])
         /\ UNCHANGED <<gError, i>>

\* A fault: the key is not checked before the first request.
GeminiCallUnchecked ==
    /\ gPc = "idle"
    /\ EnterLoop(0)
    /\ UNCHANGED <<apiKey, maxRetries, delay0, delay, gAttempts, gWaits>>
    /\ UNCHANGED <<cVars, rVars, vVars, mVars, xVars, fVars>>

\* Lines 46-53: the call starts; a missing key throws before any request.
GeminiCall ==
    /\ gPc = "idle"
    /\ IF ~apiKey
       THEN /\ gPc' = "thrown"
            /\ gError' = [msg |-> "API Key is required", arg |-> 0]
            /\ UNCHANGED <<i, timers>>
       ELSE EnterLoop(0)
    /\ UNCHANGED <<apiKey, maxRetries, delay0, delay, gAttempts, gWaits>>
    /\ UNCHANGED <<cVars, rVars, vVars, mVars, xVars, fVars>>

\* Lines 63-95: fetch resolves with a response. The timer is cleared, then the
\* response is classified.
GeminiResponse(status) ==
    /\ gPc = "fetching"
    /\ timers' = timers \ {i}
    /\ gAttempts' = Append(gAttempts, Outcome("status", status))
    /\ IF ResponseOk(status)
       THEN gPc' = "body" /\ UNCHANGED gWaits
       ELSE IF IsRateLimitRetry(status, i, maxRetries)
       THEN gPc' = "sleeping" /\ gWaits' = Append(gWaits, [after |-> i, ms |-> delay])
       ELSE gPc' = "errbody" /\ UNCHANGED gWaits
    /\ UNCHANGED <<apiKey, maxRetries, delay0, delay, i, gError>>
    /\ UNCHANGED <<cVars, rVars, vVars, mVars, xVars, fVars>>

\* Line 75: response.json() of a successful response resolves, and the call
\* returns the payload.
GeminiBodyParsed ==
    /\ gPc = "body"
    /\ gPc' = "returned"
    /\ UNCHANGED <<apiKey, maxRetries, delay0, delay, i, timers, gAttempts, gWaits, gError>>
    /\ UNCHANGED <<cVars, rVars, vVars, mVars, xVars, fVars>>

\* Line 75: response.json() rejects (a broken stream, a body that is no JSON);
\* the rejection is caught by the catch block of line 96.
GeminiBodyFails ==
    /\ gPc = "body"
    /\ gAttempts' = [gAttempts EXCEPT ![Len(gAttempts)].kind = "bodyfail"]
    /\ Catch([msg |-> "body", arg |-> 0])
    /\ UNCHANGED <<apiKey, maxRetries, delay0, delay, timers>>
    /\ UNCHANGED <<cVars, rVars, vVars, mVars, xVars, fVars>>

\* Lines 81-95: the error body has been read (or could not be, which the inner
\* try swallows); the Error of line 90 is thrown inside the try block, so the
\* catch block of line 96 receives it.
GeminiErrorBodyRead ==
    /\ gPc = "errbody"
    /\ Catch(HttpError(gAttempts[Len(gAttempts)].status))
    /\ UNCHANGED <<apiKey, maxRetries, delay0, delay, timers, gAttempts>>
    /\ UNCHANGED <<cVars, rVars, vVars, mVars, xVars, fVars>>

\* A fault: the catch block leaves the timer of the attempt armed.
GeminiNetworkFailureTimerKept ==
    /\ gPc = "fetching"
    /\ gAttempts' = Append(gAttempts, Outcome("network", 0))
    /\ Catch([msg |-> "fetch failed", arg |-> 0])
    /\ UNCHANGED <<apiKey, maxRetries, delay0, delay, timers>>
    /\ UNCHANGED <<cVars, rVars, vVars, mVars, xVars, fVars>>

\* Line 63: fetch rejects with a transport-level failure.
GeminiNetworkFailure ==
    /\ gPc = "fetching"
    /\ timers' = timers \ {i}
    /\ gAttempts' = Append(gAttempts, Outcome("network", 0))
    /\ Catch([msg |-> "fetch failed", arg |-> 0])
    /\ UNCHANGED <<apiKey, maxRetries, delay0, delay>>
    /\ UNCHANGED <<cVars, rVars, vVars, mVars, xVars, fVars>>

\* Lines 55-58: the timer of the attempt fires while fetch is pending; the
\* abort makes fetch reject with an AbortError.
GeminiTimeout ==
    /\ gPc = "fetching"
    /\ i \in timers
    /\ timers' = timers \ {i}
    /\ gAttempts' = Append(gAttempts, Outcome("timeout", 0))
    /\ Catch([msg |-> "AbortError", arg |-> 0])
    /\ UNCHANGED <<apiKey, maxRetries, delay0, delay>>
    /\ UNCHANGED <<cVars, rVars, vVars, mVars, xVars, fVars>>

\* Lines 78-79 and 108-109: the backoff wait ends, delay is doubled and the
\* loop goes to its next iteration.
GeminiWaitEnds ==
    /\ gPc = "sleeping"
    /\ delay' = NextDelay(delay)
    /\ EnterLoop(i + 1)
    /\ UNCHANGED <<apiKey, maxRetries, delay0, gAttempts, gWaits>>
    /\ UNCHANGED <<cVars, rVars, vVars, mVars, xVars, fVars>>

(***************************************************************************)
(* Words, pages and rule sets                                              *)
(***************************************************************************)
MaxPages == 3


UpperLetters ==
    <<"A", "B", "C", "D", "E", "F", "G", "H", "I", "J", "K", "L", "M",
      "N", "O", "P", "Q", "R", "S", "T", "U", "V", "W", "X", "Y", "Z">>
LowerLetters ==
    <<"a", "b", "c", "d", "e", "f", "g", "h", "i", "j", "k", "l", "m",
      "n", "o", "p", "q", "r", "s", "t", "u", "v", "w", "x", "y", "z">>
Digits == <<"0", "1", "2", "3", "4", "5", "6", "7", "8", "9">>

Range(s) == {s[k] : k \in DOMAIN s}
IsUpper(c) == c \in Range(UpperLetters)
IsDigit(c) == c \in Range(Digits)

\* A page of the word source: the text of its body, and the page numbers of
\* its <link rel=next ...pageN.htm> elements in document order.
PageBodies ==
    { "GROAN STORE",
      "<b>AROMA</b> GROAN ABOARD",
      "<span class=rd>TITAN</span> AROMA AROMA" }
LinkLists ==
    {<<>>} \cup {<<n>> : n \in 0 .. MaxPages + 1} \cup {<<n, 1>> : n \in 2 .. MaxPages}
Htmls == [body : PageBodies, links : LinkLists]

EmptyMap == [x \in {} |-> 0]
RuleSets ==
    { [exact |-> (2 :> "O"), present |-> <<[letter |-> "A", positions |-> <<>>]>>, absent |-> <<"S", "T", "R", "E">>, length |-> 5],
      [exact |-> (2 :> "O") @@ (0 :> "A"), present |-> <<>>, absent |-> <<>>, length |-> 6],
      [exact |-> EmptyMap, present |-> <<[letter |-> "A", positions |-> <<0, 1, 2>>]>>, absent |-> <<>>, length |-> 5] }

(***************************************************************************)
(* extractWordsFromHtml, getNextPageNumber                                 *)
(***************************************************************************)
TextAt(s, k, text) == k + Len(text) - 1 <= Len(s) /\ SubSeq(s, k, k + Len(text) - 1) = text

RECURSIVE CleanHtmlFrom(_, _)
CleanHtmlFrom(s, k) ==
    IF k > Len(s) THEN ""
    ELSE IF TextAt(s, k, "<b>") THEN CleanHtmlFrom(s, k + 3)
    ELSE IF TextAt(s, k, "</b>") THEN CleanHtmlFrom(s, k + 4)
    ELSE SubSeq(s, k, k) \o CleanHtmlFrom(s, k + 1)

\* Line 269: html.replace(/<b>|<\/b>/g, '').
CleanHtml(s) == CleanHtmlFrom(s, 1)

\* Line 272: where the match of /<span class=rd>(.*?)<\/span>/ that starts at
\* k ends, 0 without one: the group runs to the nearest </span>, and `.`
\* matches no line break.
RedSpanOpen == "<span class=rd>"
RedSpanClose == "</span>"
RedSpanEnd(s, k) ==
    LET closes == { c \in k + Len(RedSpanOpen) .. Len(s) : TextAt(s, c, RedSpanClose) }
        c1 == CHOOSE c \in closes : \A d \in closes : c <= d
    IN  IF ~TextAt(s, k, RedSpanOpen) \/ closes = {} THEN 0
        ELSE IF \E j \in k + Len(RedSpanOpen) .. c1 - 1 : SubSeq(s, j, j) \in {"\n", "\r"} THEN 0
        ELSE c1 + Len(RedSpanClose) - 1

RECURSIVE HtmlWithoutRedFrom(_, _)
HtmlWithoutRedFrom(s, k) ==
    IF k > Len(s) THEN ""
    ELSE IF RedSpanEnd(s, k) # 0 THEN HtmlWithoutRedFrom(s, RedSpanEnd(s, k) + 1)
    ELSE SubSeq(s, k, k) \o HtmlWithoutRedFrom(s, k + 1)

\* Line 273: cleanHtml.replace(redSpanRegex, '').
HtmlWithoutRed(s) == HtmlWithoutRedFrom(s, 1)

\* \w of a regular expression, and \b between two places of a text.
IsWordChar(c) == IsUpper(c) \/ c \in Range(LowerLetters) \/ IsDigit(c) \/ c = "_"
WordCharAt(s, k) == k >= 1 /\ k <= Len(s) /\ IsWordChar(SubSeq(s, k, k))
IsBoundary(s, k) == WordCharAt(s, k - 1) # WordCharAt(s, k)

\* Line 276: /\b([A-Z]{wordLength})\b/ matches at k.
WordRegexAt(s, k, wordLength) ==
    /\ k + wordLength - 1 <= Len(s)
    /\ \A j \in k .. k + wordLength - 1 : IsUpper(SubSeq(s, j, j))
    /\ IsBoundary(s, k) /\ IsBoundary(s, k + wordLength)

RECURSIVE WordRegexMatches(_, _, _)
\* Lines 277-284: the matches of the global pattern, left to right, each
\* search starting where the match before it ended.
WordRegexMatches(s, k, wordLength) ==
    IF k > Len(s) THEN <<>>
    ELSE IF WordRegexAt(s, k, wordLength)
    THEN <<SubSeq(s, k, k + wordLength - 1)>> \o WordRegexMatches(s, k + wordLength, wordLength)
    ELSE WordRegexMatches(s, k + 1, wordLength)

\* Lines 267-287 on the text of a page, for a word length of 1 or more.
ExtractWords(body, wordLength) ==
    WordRegexMatches(HtmlWithoutRed(CleanHtml(body)), 1, wordLength)

\* The words of the pages of the word source, computed once.
WordLengths == {5, 6}
PageWordsOf == [body \in PageBodies, n \in WordLengths |-> ExtractWords(body, n)]

extractWordsFromHtml(html, wordLength) ==
    IF html.body \in PageBodies /\ wordLength \in WordLengths
    THEN PageWordsOf[html.body, wordLength]
    ELSE ExtractWords(html.body, wordLength)

\* Lines 292-299: the number of the first next-page link, or null (<<>>).
getNextPageNumber(html) ==
    IF html.links = <<>> THEN <<>> ELSE <<Head(html.links)>>

\* A fault: any later page number continues the chain.
IsNextPageAnyLater(nextPageNum, page) ==
    /\ nextPageNum # <<>>
    /\ nextPageNum[1] > page

\* Line 356: nextPageNum && nextPageNum === currentPage + 1.
IsNextPage(nextPageNum, page) ==
    /\ nextPageNum # <<>>
    /\ nextPageNum[1] # 0
    /\ nextPageNum[1] = page + 1

\* A fault: a rate-limit response ends pagination like a 404.
IsEndOfPagesOrRateLimit(status, page) == status \in {NOT_FOUND, RATE_LIMIT} /\ page > 1

\* A fault: any failure after the first page ends pagination without an error.
IsEndOfPagesAnyStatus(status, page) == page > 1

\* Line 339: the response that ends pagination without an error.
IsEndOfPages(status, page) == status = NOT_FOUND /\ page > 1

\* A fault: the list is returned without deduplication.
UniqueKeepAll(ws) == ws

RECURSIVE UniqueAdjacent(_)
\* A fault: only a word equal to the one before it is dropped.
UniqueAdjacent(ws) ==
    IF Len(ws) <= 1 THEN ws
    ELSE LET init == UniqueAdjacent(SubSeq(ws, 1, Len(ws) - 1))
             last == ws[Len(ws)]
         IN  IF last = ws[Len(ws) - 1] THEN init ELSE Append(init, last)

RECURSIVE Unique(_)
\* Line 365: Array.from(new Set(allWords)) keeps each word's first occurrence.
Unique(ws) ==
    IF ws = <<>> THEN <<>>
    ELSE LET init == Unique(SubSeq(ws, 1, Len(ws) - 1))
             last == ws[Len(ws)]
         IN  IF last \in Range(init) THEN init ELSE Append(init, last)

RECURSIVE SortedSeqDescending(_)
\* A fault: the keys are listed highest first.
SortedSeqDescending(S) ==
    IF S = {} THEN <<>>
    ELSE LET m == CHOOSE x \in S : \A y \in S : x >= y
         IN  <<m>> \o SortedSeqDescending(S \ {m})

RECURSIVE SortedSeq(_)
\* Object.keys of an object with integer keys lists them in ascending order.
SortedSeq(S) ==
    IF S = {} THEN <<>>
    ELSE LET m == CHOOSE x \in S : \A y \in S : x <= y
         IN  <<m>> \o SortedSeq(S \ {m})

\* Line 306.
ExactPositions(rs) == SortedSeq(DOMAIN rs.exact)

\* Lines 316-317: positionNames[position] || `position${position + 1}`, for the
\* positions 0..8 a compiled RuleSet can hold in exact.
PositionName(position) ==
    << "first", "second", "third", "fourth", "fifth",
       "position6", "position7", "position8", "position9" >>[position + 1]

\* Lines 313-333: the request for page `page` of the seed's word list.
PageRequest(rs, page) ==
    LET position == ExactPositions(rs)[1] IN
    [ letter |-> rs.exact[position], position |-> position,
      positionName |-> PositionName(position), length |-> rs.length, page |-> page ]

(***************************************************************************)
(* fetchWordListByPosition                                                 *)
(***************************************************************************)
\* The log entry of a page request: the page asked for, how the request ended
\* (status, network, textfail, page), the status, and for a page that was read
\* its next-page number and its words.
PageOutcome(page, kind, status) ==
    [page |-> page, kind |-> kind, status |-> status, next |-> <<>>, words |-> <<>>]

\* A fault: the catch block returns what was gathered so far.
CollectCatchPartial ==
    /\ cPc' = "done"
    /\ cErrorLogged' = TRUE
    /\ cResult' = allWords

\* Lines 369-372: the catch block.
CollectCatch ==
    /\ cPc' = "done"
    /\ cErrorLogged' = TRUE
    /\ cResult' = <<>>

\* A fault: page 1 is requested even when there is no exact entry.
CollectStartUnguarded ==
    /\ cPc = "idle"
    /\ cPc' = "fetching"
    /\ cRequests' = Append(cRequests,
          IF ExactPositions(cRules) = <<>>
          THEN [letter |-> "", position |-> 0, positionName |-> "first",
                length |-> cRules.length, page |-> currentPage]
          ELSE PageRequest(cRules, currentPage))
    /\ UNCHANGED <<cRules, currentPage, allWords, cResponses, cPauses, cErrorLogged,
                   cResult, cNotice>>
    /\ UNCHANGED <<gVars, rVars, vVars, mVars, xVars, fVars>>

\* Lines 305-337: no exact entry returns []; otherwise page 1 is requested.
CollectStart ==
    /\ cPc = "idle"
    /\ IF ExactPositions(cRules) = <<>>
       THEN /\ cPc' = "done"
            /\ cResult' = <<>>
            /\ cNotice' = TRUE
            /\ UNCHANGED cRequests
       ELSE /\ cPc' = "fetching"
            /\ cRequests' = Append(cRequests, PageRequest(cRules, currentPage))
            /\ UNCHANGED <<cResult, cNotice>>
    /\ UNCHANGED <<cRules, currentPage, allWords, cResponses, cPauses, cErrorLogged>>
    /\ UNCHANGED <<gVars, rVars, vVars, mVars, xVars, fVars>>

\* Lines 337-347: fetch resolves with a response.
PageResponse(status) ==
    /\ cPc = "fetching"
    /\ cResponses' = Append(cResponses, PageOutcome(currentPage, "status", status))
    /\ IF ResponseOk(status)
       THEN cPc' = "reading" /\ UNCHANGED <<cErrorLogged, cResult>>
       ELSE IF IsEndOfPages(status, currentPage)
       THEN cPc' = "done" /\ cResult' = Unique(allWords) /\ UNCHANGED cErrorLogged
       ELSE CollectCatch
    /\ UNCHANGED <<cRules, currentPage, allWords, cRequests, cPauses>>
    /\ UNCHANGED <<cNotice, gVars, rVars, vVars, mVars, xVars, fVars>>

\* Line 337: fetch rejects.
PageNetworkFailure ==
    /\ cPc = "fetching"
    /\ cResponses' = Append(cResponses, PageOutcome(currentPage, "network", 0))
    /\ CollectCatch
    /\ UNCHANGED <<cRules, currentPage, allWords, cRequests, cPauses>>
    /\ UNCHANGED <<cNotice, gVars, rVars, vVars, mVars, xVars, fVars>>

\* A fault: the next page is requested without a pause.
PageTextReadWithoutPause(html) ==
    /\ cPc = "reading"
    /\ IsNextPage(getNextPageNumber(html), currentPage) => currentPage < MaxPages
    /\ LET words == allWords \o extractWordsFromHtml(html, cRules.length)
           nextPageNum == getNextPageNumber(html)
       IN  /\ allWords' = words
           /\ cResponses' = [cResponses EXCEPT ![Len(cResponses)] =
                  [@ EXCEPT !.kind = "page", !.next = nextPageNum,
                            !.words = extractWordsFromHtml(html, cRules.length)]]
           /\ IF IsNextPage(nextPageNum, currentPage)
              THEN /\ currentPage' = nextPageNum[1]
                   /\ cPc' = "fetching"
                   /\ cRequests' = Append(cRequests, PageRequest(cRules, nextPageNum[1]))
                   /\ UNCHANGED <<cResult, cPauses>>
              ELSE /\ cPc' = "done"
                   /\ cResult' = Unique(words)
                   /\ UNCHANGED <<currentPage, cPauses, cRequests>>
    /\ UNCHANGED <<cRules, cErrorLogged>>
    /\ UNCHANGED <<cNotice, gVars, rVars, vVars, mVars, xVars, fVars>>

\* Lines 347-367: the body has been read; its words are added and the next
\* page link decides between a pause before the next page and the return.
PageTextRead(html) ==
    /\ cPc = "reading"
    /\ IsNextPage(getNextPageNumber(html), currentPage) => currentPage < MaxPages
    /\ LET words == allWords \o extractWordsFromHtml(html, cRules.length)
           nextPageNum == getNextPageNumber(html)
       IN  /\ allWords' = words
           /\ cResponses' = [cResponses EXCEPT ![Len(cResponses)] =
                  [@ EXCEPT !.kind = "page", !.next = nextPageNum,
                            !.words = extractWordsFromHtml(html, cRules.length)]]
           /\ IF IsNextPage(nextPageNum, currentPage)
              THEN /\ currentPage' = nextPageNum[1]
                   /\ cPc' = "pausing"
                   /\ cPauses' = Append(cPauses, <<currentPage, 100>>)
                   /\ UNCHANGED cResult
              ELSE /\ cPc' = "done"
                   /\ cResult' = Unique(words)
                   /\ UNCHANGED <<currentPage, cPauses>>
    /\ UNCHANGED <<cRules, cRequests, cErrorLogged>>
    /\ UNCHANGED <<cNotice, gVars, rVars, vVars, mVars, xVars, fVars>>

\* Line 347: response.text() rejects.
PageTextFails ==
    /\ cPc = "reading"
    /\ cResponses' = [cResponses EXCEPT ![Len(cResponses)].kind = "textfail"]
    /\ CollectCatch
    /\ UNCHANGED <<cRules, currentPage, allWords, cRequests, cPauses>>
    /\ UNCHANGED <<cNotice, gVars, rVars, vVars, mVars, xVars, fVars>>

\* A fault: the pause never ends.
PauseEndsNever ==
    /\ cPc = "pausing"
    /\ UNCHANGED <<cVars, gVars, rVars, vVars, mVars, xVars, fVars>>

\* Lines 359, 330-337: the pause ends and the next page is requested.
PauseEnds ==
    /\ cPc = "pausing"
    /\ cPc' = "fetching"
    /\ cRequests' = Append(cRequests, PageRequest(cRules, currentPage))
    /\ UNCHANGED <<cRules, currentPage, allWords, cResponses, cPauses, cErrorLogged, cResult>>
    /\ UNCHANGED <<cNotice, gVars, rVars, vVars, mVars, xVars, fVars>>

(***************************************************************************)
(* Strings: a text is a sequence of one-character strings                  *)
(***************************************************************************)
Chars(str) == [k \in 1 .. Len(str) |-> SubSeq(str, k, k)]

IndexOf(c, s) == CHOOSE k \in DOMAIN s : s[k] = c

\* String.prototype.toUpperCase on the characters of the model.
UpperChar(c) == IF c \in Range(LowerLetters) THEN UpperLetters[IndexOf(c, LowerLetters)] ELSE c

\* A fault: the text is not upper-cased.
toUpperCaseMissing(s) == s

toUpperCase(s) == [k \in DOMAIN s |-> UpperChar(s[k])]

IsSpace(c) == c \in {" ", "\t"}

RECURSIVE TrimStart(_)
TrimStart(s) == IF s # <<>> /\ IsSpace(Head(s)) THEN TrimStart(Tail(s)) ELSE s
RECURSIVE TrimEnd(_)
TrimEnd(s) == IF s # <<>> /\ IsSpace(s[Len(s)]) THEN TrimEnd(SubSeq(s, 1, Len(s) - 1)) ELSE s
\* String.prototype.trim.
Trim(s) == TrimEnd(TrimStart(s))

RECURSIVE Split(_, _)
\* String.prototype.split on a one-character separator: always at least one
\* piece, and an empty piece wherever two separators meet or the text ends.
Split(s, sep) ==
    IF \A k \in DOMAIN s : s[k] # sep THEN <<s>>
    ELSE LET k == CHOOSE j \in DOMAIN s : s[j] = sep /\ \A h \in 1 .. j - 1 : s[h] # sep
         IN  <<SubSeq(s, 1, k - 1)>> \o Split(SubSeq(s, k + 1, Len(s)), sep)

DigitValue(c) == IndexOf(c, Digits) - 1

RECURSIVE DigitsValue(_)
DigitsValue(s) ==
    IF s = <<>> THEN 0 ELSE DigitsValue(SubSeq(s, 1, Len(s) - 1)) * 10 + DigitValue(s[Len(s)])

RECURSIVE LeadingDigits(_)
LeadingDigits(s) ==
    IF s # <<>> /\ IsDigit(Head(s)) THEN <<Head(s)>> \o LeadingDigits(Tail(s)) ELSE <<>>

\* parseInt(s, 10) on a text of digits, spaces and commas: the value of the
\* leading run of digits after leading white space, NaN (<<>>) without one.
parseInt(s) ==
    LET ds == LeadingDigits(TrimStart(s))
    IN  IF ds = <<>> THEN <<>> ELSE <<DigitsValue(ds)>>

StartsWith(s, prefix) == Len(s) >= Len(prefix) /\ SubSeq(s, 1, Len(prefix)) = prefix

RECURSIVE MapTrim(_)
MapTrim(pieces) ==
    IF pieces = <<>> THEN <<>> ELSE <<Trim(Head(pieces))>> \o MapTrim(Tail(pieces))

(***************************************************************************)
(* parseRules                                                              *)
(***************************************************************************)
\* Line 176: /^([A-Z]) AT (\d)$/.
ExactMatch(line) ==
    /\ Len(line) = 6
    /\ IsUpper(line[1])
    /\ SubSeq(line, 2, 5) = Chars(" AT ")
    /\ IsDigit(line[6])

\* A fault: position 0 is accepted.
PositionAcceptedFromZero(position) == position >= 0 /\ position <= 9

\* Line 179: the accepted one-based positions.
PositionAccepted(position) == position >= 1 /\ position <= 9

\* A fault: the letter is stored under the one-based position.
ExactIndexOneBased(position) == position

\* Line 180: the key the letter is stored under.
ExactIndex(position) == position - 1

\* Line 186: /^NO\s+([A-Z, ]+)$/; the group is what follows the white space.
AbsentGroup(line) == TrimStart(SubSeq(line, 3, Len(line)))
AbsentMatch(line) ==
    /\ StartsWith(line, Chars("NO"))
    /\ Len(line) >= 3 /\ IsSpace(line[3])
    /\ AbsentGroup(line) # <<>>
    /\ \A k \in DOMAIN AbsentGroup(line) :
          IsUpper(AbsentGroup(line)[k]) \/ AbsentGroup(line)[k] \in {",", " "}

\* Line 188: the pieces between commas, trimmed, that are one character long.
AbsentLetters(group) ==
    LET pieces == MapTrim(Split(group, ","))
        letters == SelectSeq(pieces, LAMBDA l : Len(l) = 1)
    IN  [k \in DOMAIN letters |-> letters[k][1]]

\* Line 194: /^([A-Z]) IN WORD/.
PresentMatch(line) ==
    /\ Len(line) >= 9
    /\ IsUpper(line[1])
    /\ SubSeq(line, 2, 9) = Chars(" IN WORD")

\* Line 199: /NOT AT ([\d, ]+)$/; the start of the leftmost match, 0 if none.
NotAtStarts(line) ==
    { s \in DOMAIN line :
        /\ s + 7 <= Len(line)
        /\ SubSeq(line, s, s + 6) = Chars("NOT AT ")
        /\ \A k \in s + 7 .. Len(line) : IsDigit(line[k]) \/ line[k] \in {",", " "} }
NotAtMatch(line) == NotAtStarts(line) # {}
NotAtGroup(line) ==
    LET s == CHOOSE x \in NotAtStarts(line) : \A y \in NotAtStarts(line) : x <= y
    IN  SubSeq(line, s + 7, Len(line))

RECURSIVE DisallowedOfOneBased(_)
\* A fault: the positions are stored as written, one-based.
DisallowedOfOneBased(pieces) ==
    IF pieces = <<>> THEN <<>>
    ELSE LET n == parseInt(Trim(Head(pieces)))
         IN  (IF n # <<>> /\ n[1] >= 0 THEN <<n[1]>> ELSE <<>>)
                 \o DisallowedOfOneBased(Tail(pieces))

RECURSIVE DisallowedOf(_)
\* Lines 201-203: each piece parsed, less one, kept when >= 0 (NaN is dropped).
DisallowedOf(pieces) ==
    IF pieces = <<>> THEN <<>>
    ELSE LET n == parseInt(Trim(Head(pieces)))
         IN  (IF n # <<>> /\ n[1] - 1 >= 0 THEN <<n[1] - 1>> ELSE <<>>)
                 \o DisallowedOf(Tail(pieces))

\* Lines 197-204.
DisallowedPositions(line) ==
    IF NotAtMatch(line) THEN DisallowedOf(Split(NotAtGroup(line), ",")) ELSE <<>>

\* Line 211: /^LENGTH:\s*(\d+)$/.
LengthGroup(line) == TrimStart(SubSeq(line, 8, Len(line)))
LengthMatch(line) ==
    /\ StartsWith(line, Chars("LENGTH:"))
    /\ LengthGroup(line) # <<>>
    /\ \A k \in DOMAIN LengthGroup(line) : IsDigit(LengthGroup(line)[k])

\* Assignment to a property of an object with integer keys.
PutExact(exact, index, letter) ==
    [k \in DOMAIN exact \cup {index} |-> IF k = index THEN letter ELSE exact[k]]

\* A fault: the positions of a later line are added to those of an earlier one.
PutPresentMerging(present, letter, positions) ==
    IF \E k \in DOMAIN present : present[k].letter = letter
    THEN [k \in DOMAIN present |->
            IF present[k].letter = letter
            THEN [letter |-> letter, positions |-> present[k].positions \o positions]
            ELSE present[k]]
    ELSE Append(present, [letter |-> letter, positions |-> positions])

\* Assignment to a property of an object with string keys: a new key is added
\* last, an existing key keeps its place.
PutPresent(present, letter, positions) ==
    IF \E k \in DOMAIN present : present[k].letter = letter
    THEN [k \in DOMAIN present |->
            IF present[k].letter = letter
            THEN [letter |-> letter, positions |-> positions] ELSE present[k]]
    ELSE Append(present, [letter |-> letter, positions |-> positions])

\* Lines 165-170.
DefaultRules == [exact |-> EmptyMap, present |-> <<>>, absent |-> <<>>, length |-> 5]

\* A fault: a line that no pattern matches discards what was compiled so far.
CompileLineResetOnUnknown(rs, line) ==
    IF ExactMatch(line) /\ PositionAccepted(DigitValue(line[6]))
    THEN [rs EXCEPT !.exact = PutExact(rs.exact, ExactIndex(DigitValue(line[6])), line[1])]
    ELSE IF AbsentMatch(line)
    THEN [rs EXCEPT !.absent = rs.absent \o AbsentLetters(AbsentGroup(line))]
    ELSE IF PresentMatch(line)
    THEN [rs EXCEPT !.present = PutPresent(rs.present, line[1], DisallowedPositions(line))]
    ELSE IF LengthMatch(line)
    THEN [rs EXCEPT !.length = DigitsValue(LengthGroup(line))]
    ELSE DefaultRules

\* A fault: an exact line also records its letter as present.
CompileLineExactAlsoPresent(rs, line) ==
    IF ExactMatch(line) /\ PositionAccepted(DigitValue(line[6]))
    THEN [rs EXCEPT !.exact = PutExact(rs.exact, ExactIndex(DigitValue(line[6])), line[1]),
                    !.present = PutPresent(rs.present, line[1], <<>>)]
    ELSE IF AbsentMatch(line)
    THEN [rs EXCEPT !.absent = rs.absent \o AbsentLetters(AbsentGroup(line))]
    ELSE IF PresentMatch(line)
    THEN [rs EXCEPT !.present = PutPresent(rs.present, line[1], DisallowedPositions(line))]
    ELSE IF LengthMatch(line)
    THEN [rs EXCEPT !.length = DigitsValue(LengthGroup(line))]
    ELSE rs

\* Lines 174-216: the body of the loop for one line.
CompileLine(rs, line) ==
    IF ExactMatch(line) /\ PositionAccepted(DigitValue(line[6]))
    THEN [rs EXCEPT !.exact = PutExact(rs.exact, ExactIndex(DigitValue(line[6])), line[1])]
    ELSE IF AbsentMatch(line)
    THEN [rs EXCEPT !.absent = rs.absent \o AbsentLetters(AbsentGroup(line))]
    ELSE IF PresentMatch(line)
    THEN [rs EXCEPT !.present = PutPresent(rs.present, line[1], DisallowedPositions(line))]
    ELSE IF LengthMatch(line)
    THEN [rs EXCEPT !.length = DigitsValue(LengthGroup(line))]
    ELSE rs

RECURSIVE CompileLines(_, _)
CompileLines(rs, lines) ==
    IF lines = <<>> THEN rs ELSE CompileLines(CompileLine(rs, Head(lines)), Tail(lines))

\* Line 172.
RuleLines(text) ==
    SelectSeq(MapTrim(Split(toUpperCase(text), "\n")), LAMBDA line : Len(line) > 0)

\* Lines 164-219.
parseRules(text) == CompileLines(DefaultRules, RuleLines(Chars(text)))

(***************************************************************************)
(* checkRules                                                              *)
(***************************************************************************)
\* word[index] === letter, with word[index] undefined past the end.
HasAt(w, index, letter) == index + 1 \in DOMAIN w /\ w[index + 1] = letter

\* word.includes(letter) for a one-character letter.
Includes(w, letter) == \E k \in DOMAIN w : w[k] = letter

\* Lines 228-230.
LengthOk(w, rs) == Len(w) = rs.length

\* A fault: one matching exact entry is enough.
ExactOkAny(w, rs) ==
    DOMAIN rs.exact = {} \/ \E index \in DOMAIN rs.exact : HasAt(w, index, rs.exact[index])

\* Lines 233-238.
ExactOk(w, rs) == \A index \in DOMAIN rs.exact : HasAt(w, index, rs.exact[index])

\* A fault: an absent letter that also has a presence rule is not tested.
AbsentOkUnlessPresent(w, rs) ==
    \A k \in DOMAIN rs.absent :
        \/ \E j \in DOMAIN rs.present : rs.present[j].letter = rs.absent[k]
        \/ ~Includes(w, rs.absent[k])

\* A fault: only the first absent letter is tested.
AbsentOkFirstOnly(w, rs) == rs.absent = <<>> \/ ~Includes(w, rs.absent[1])

\* Lines 241-245.
AbsentOk(w, rs) == \A k \in DOMAIN rs.absent : ~Includes(w, rs.absent[k])

\* A fault: the disallowed positions of a presence rule are not tested.
PresentOkAnywhere(w, rs) ==
    \A k \in DOMAIN rs.present : Includes(w, rs.present[k].letter)

\* Lines 248-259.
PresentOk(w, rs) ==
    \A k \in DOMAIN rs.present :
        /\ Includes(w, rs.present[k].letter)
        /\ \A p \in DOMAIN rs.present[k].positions :
              ~HasAt(w, rs.present[k].positions[p], rs.present[k].letter)

\* Lines 224-262.
checkRules(token, rs) ==
    LET w == toUpperCase(Chars(token))
    IN  LengthOk(w, rs) /\ ExactOk(w, rs) /\ AbsentOk(w, rs) /\ PresentOk(w, rs)

(***************************************************************************)
(* validateWordExistence                                                   *)
(***************************************************************************)
\* String.prototype.toLowerCase on the characters of the model.
LowerChar(c) == IF c \in Range(UpperLetters) THEN LowerLetters[IndexOf(c, UpperLetters)] ELSE c
toLowerCase(s) == [k \in DOMAIN s |-> LowerChar(s[k])]

RECURSIVE Concat(_)
\* The string made of the given characters.
Concat(s) == IF s = <<>> THEN "" ELSE Head(s) \o Concat(Tail(s))

\* Line 122: the template `${word}:${requiredLength}`.
CacheKey(w, n) == w \o ":" \o ToString(n)

\* A fault: only a cached true counts as a cache entry.
CacheHitIfTrue(cache, key) == key \in DOMAIN cache /\ cache[key]

\* Line 124: WORD_CACHE[cacheKey] !== undefined.
CacheHit(cache, key) == key \in DOMAIN cache

\* Lines 130, 139, 144, 150, 156: WORD_CACHE[cacheKey] = value.
CachePut(cache, key, value) ==
    [k \in DOMAIN cache \cup {key} |-> IF k = key THEN value ELSE cache[k]]

\* A fault: only a word shorter than required skips the lookup.
LengthMismatchIfShorter(w, n) == Len(w) < n

\* Line 129: word.length !== requiredLength.
LengthMismatch(w, n) == Len(w) # n

\* A fault: a status other than success and 404 counts as not found.
StatusVerdictStrict(status) == ResponseOk(status)

\* Lines 138-152: the verdict for a response.
StatusVerdict(status) ==
    IF ResponseOk(status) THEN TRUE
    ELSE IF status = NOT_FOUND THEN FALSE
    ELSE TRUE

\* A fault: the catch block lets the failure out.
ValidateCatchRethrow == [thrown |-> TRUE, verdict |-> <<>>]

\* Lines 153-158: the catch block returns true.
ValidateCatch == [thrown |-> FALSE, verdict |-> <<TRUE>>]

\* What vCalls records of a call: outcome is hit, mismatch, pending,
\* response or network.
CallRecord(w, n, outcome, lookups, status, thrown, v) ==
    [word |-> w, requiredLength |-> n, key |-> CacheKey(w, n), outcome |-> outcome,
     lookups |-> lookups, status |-> status, thrown |-> thrown, verdict |-> v]

\* Lines 120-136: up to the fetch.
ValidateCall(w, n) ==
    LET lower == Concat(toLowerCase(Chars(w)))
        key == CacheKey(lower, n)
    IN  /\ vPc = "idle"
        /\ vWord' = lower
        /\ requiredLength' = n
        /\ IF CacheHit(WORD_CACHE, key)
           THEN /\ vCalls' = Append(vCalls,
                        CallRecord(lower, n, "hit", 0, 0, FALSE, <<WORD_CACHE[key]>>))
                /\ UNCHANGED <<WORD_CACHE, vPc>>
           ELSE IF LengthMismatch(lower, n)
           THEN /\ WORD_CACHE' = CachePut(WORD_CACHE, key, FALSE)
                /\ vCalls' = Append(vCalls,
                        CallRecord(lower, n, "mismatch", 0, 0, FALSE, <<FALSE>>))
                /\ UNCHANGED vPc
           ELSE /\ vPc' = "fetching"
                /\ vCalls' = Append(vCalls,
                        CallRecord(lower, n, "pending", 1, 0, FALSE, <<>>))
                /\ UNCHANGED WORD_CACHE
        /\ UNCHANGED <<gVars, cVars, rVars, mVars, xVars, fVars>>

\* Lines 136-152: the dictionary answers.
ValidateResponse(status) ==
    /\ vPc = "fetching"
    /\ WORD_CACHE' = CachePut(WORD_CACHE, CacheKey(vWord, requiredLength), StatusVerdict(status))
    /\ vCalls' = [vCalls EXCEPT ![Len(vCalls)] =
            CallRecord(vWord, requiredLength, "response", 1, status, FALSE,
                       <<StatusVerdict(status)>>)]
    /\ vPc' = "idle"
    /\ UNCHANGED <<vWord, requiredLength>>
    /\ UNCHANGED <<gVars, cVars, rVars, mVars, xVars, fVars>>

\* Lines 153-158: the fetch rejects.
ValidateNetworkFailure ==
    /\ vPc = "fetching"
    /\ WORD_CACHE' = IF ValidateCatch.thrown THEN WORD_CACHE
                     ELSE CachePut(WORD_CACHE, CacheKey(vWord, requiredLength),
                                   ValidateCatch.verdict[1])
    /\ vCalls' = [vCalls EXCEPT ![Len(vCalls)] =
            CallRecord(vWord, requiredLength, "network", 1, 0, ValidateCatch.thrown,
                       ValidateCatch.verdict)]
    /\ vPc' = "idle"
    /\ UNCHANGED <<vWord, requiredLength>>
    /\ UNCHANGED <<gVars, cVars, rVars, mVars, xVars, fVars>>

(***************************************************************************)
(* fetchWordListByPosition of test-wordlist-fetch.ts                       *)
(***************************************************************************)
\* test-wordlist-fetch.ts, lines 200-203: the indexes 0 .. wordLength - 1
\* that are not disallowed, in ascending order.
getAllowedPositions(wordLength, disallowedPositions) ==
    SelectSeq([k \in 1 .. wordLength |-> k - 1], LAMBDA pos : pos \notin Range(disallowedPositions))

\* Lines 230-232: no letter yet, minPositionCount = Infinity (<<>>).
NoBest == [letter |-> "", allowed |-> <<>>, min |-> <<>>]

\* A fault: a letter with as few allowed positions replaces the one found.
IsBetterOrEqual(allowedPositions, best) ==
    /\ best.min = <<>> \/ Len(allowedPositions) <= best.min[1]
    /\ Len(allowedPositions) > 0

\* Line 243: allowedPositions.length < minPositionCount && allowedPositions.length > 0.
IsBetter(allowedPositions, best) ==
    /\ best.min = <<>> \/ Len(allowedPositions) < best.min[1]
    /\ Len(allowedPositions) > 0

RECURSIVE SelectBest(_, _, _)
\* Lines 234-248: for (const letter in rules.present), in insertion order.
SelectBest(present, wordLength, best) ==
    IF present = <<>> THEN best
    ELSE LET allowedPositions == getAllowedPositions(wordLength, Head(present).positions)
         IN  SelectBest(Tail(present), wordLength,
                        IF IsBetter(allowedPositions, best)
                        THEN [letter |-> Head(present).letter, allowed |-> allowedPositions,
                              min |-> <<Len(allowedPositions)>>]
                        ELSE best)

\* Lines 213-218 and 234-253: the letter and the positions the word lists
\* are asked for: those of the first exact entry if there is one, else the
\* best present letter and its allowed positions (none: nothing is asked).
FetchPlan(rs) ==
    IF ExactPositions(rs) # <<>>
    THEN [letter |-> rs.exact[ExactPositions(rs)[1]], positions |-> <<ExactPositions(rs)[1]>>]
    ELSE LET best == SelectBest(rs.present, rs.length, NoBest)
         IN  [letter |-> best.letter, positions |-> best.allowed]

\* Lines 219-221 and 259-261: the word list a fetchWordsFromUrl call asks for.
ListRequest(rs, letter, position) ==
    [letter |-> letter, position |-> position, length |-> rs.length]

\* Lines 208-253: the plan is made; without a letter the function returns
\* [], otherwise the first word list is asked for.
FetchStart ==
    /\ fPc = "idle"
    /\ LET plan == FetchPlan(fRules)
       IN  /\ fLetter' = plan.letter
           /\ fPositions' = plan.positions
           /\ IF plan.positions = <<>>
              THEN fPc' = "done" /\ UNCHANGED fRequests
              ELSE /\ fPc' = "fetching"
                   /\ fRequests' = <<ListRequest(fRules, plan.letter, plan.positions[1])>>
    /\ UNCHANGED <<fRules, fAllWords, fOutcomes, fResult>>
    /\ UNCHANGED <<gVars, cVars, rVars, vVars, mVars, xVars>>

\* Lines 131-189, 223-224, 258-274: fetchWordsFromUrl returns the words of
\* the list, or [] after a failure on any of its pages; they are added, and
\* the next list is asked for or the deduplicated words are returned.
FetchReturns(failed, words) ==
    /\ fPc = "fetching"
    /\ failed => words = <<>>
    /\ fOutcomes' = Append(fOutcomes, [failed |-> failed, words |-> words])
    /\ fAllWords' = fAllWords \o words
    /\ IF Len(fRequests) < Len(fPositions)
       THEN /\ fRequests' = Append(fRequests,
                    ListRequest(fRules, fLetter, fPositions[Len(fRequests) + 1]))
            /\ UNCHANGED <<fPc, fResult>>
       ELSE /\ fPc' = "done"
            /\ fResult' = Unique(fAllWords \o words)
            /\ UNCHANGED fRequests
    /\ UNCHANGED <<fRules, fLetter, fPositions>>
    /\ UNCHANGED <<gVars, cVars, rVars, vVars, mVars, xVars>>

(***************************************************************************)
(* Specifications                                                          *)
(***************************************************************************)
MaxLines == 2

\* Parameter defaults of handleGeminiApiCall (line 43, line 44).
DefaultMaxRetries == 5

GeminiIdle ==
    /\ gPc = "idle" /\ apiKey = TRUE
    /\ maxRetries = DefaultMaxRetries /\ delay0 = DefaultDelay /\ delay = DefaultDelay
    /\ i = 0 /\ timers = {} /\ gAttempts = <<>> /\ gWaits = <<>> /\ gError = NoError

CollectIdle ==
    /\ cPc = "idle" /\ cRules = DefaultRules
    /\ currentPage = 1 /\ allWords = <<>>
    /\ cRequests = <<>> /\ cResponses = <<>> /\ cPauses = <<>>
    /\ cErrorLogged = FALSE /\ cResult = <<>> /\ cNotice = FALSE

RulesIdle ==
    /\ rPc = "start" /\ rLines = <<>> /\ dslRules = "" /\ word = ""
    /\ rules = DefaultRules /\ verdict = FALSE

ValidateIdle ==
    /\ WORD_CACHE = EmptyMap /\ vPc = "idle" /\ vWord = "" /\ requiredLength = 0
    /\ vCalls = <<>>

\* What the translation service's answer holds: no text, a text that is not
\* JSON, JSON without dsl_rules, or JSON whose dsl_rules is a rule text.
Reply(kind, lines) == [kind |-> kind, lines |-> lines]
NoReply == Reply("none", <<>>)

MainLocalsIdle ==
    /\ prompt = "" /\ dslResult = NoReply /\ mError = ""
    /\ candidateWords = <<>> /\ mI = 0 /\ validWords = <<>>
    /\ mChecked = <<>> /\ mLog = <<>> /\ mExit = <<>>

MainIdle == mPc = "idle" /\ MainLocalsIdle

ExtractIdle ==
    /\ xPc = "start" /\ xParts = <<>> /\ xHtml = "" /\ xWordLength = 5 /\ xWords = <<>>

FetchIdle ==
    /\ fPc = "idle" /\ fRules = DefaultRules /\ fLetter = "" /\ fPositions = <<>>
    /\ fAllWords = <<>> /\ fRequests = <<>> /\ fOutcomes = <<>> /\ fResult = <<>>

\* ---- handleGeminiApiCall, called with any key, attempt ceiling and delay.

InitGemini ==
    /\ gPc = "idle"
    /\ apiKey \in BOOLEAN
    /\ maxRetries \in 0 .. MaxRetriesBound
    /\ delay0 \in {DefaultDelay, 250}
    /\ delay = delay0
    /\ i = 0 /\ timers = {} /\ gAttempts = <<>> /\ gWaits = <<>> /\ gError = NoError
    /\ CollectIdle /\ RulesIdle /\ ValidateIdle /\ MainIdle /\ ExtractIdle /\ FetchIdle

NextGemini ==
    \/ GeminiCall
    \/ \E status \in Statuses : GeminiResponse(status)
    \/ GeminiBodyParsed
    \/ GeminiBodyFails
    \/ GeminiErrorBodyRead
    \/ GeminiNetworkFailure
    \/ GeminiTimeout
    \/ GeminiWaitEnds

SpecGemini == InitGemini /\ [][NextGemini]_vars

\* The runtime fires an armed timer and ends a setTimeout wait; the network
\* owes the call nothing.
FairGemini ==
    /\ SpecGemini
    /\ WF_vars(GeminiCall)
    /\ WF_vars(GeminiTimeout)
    /\ WF_vars(GeminiWaitEnds)

\* ---- fetchWordListByPosition, called with a RuleSet.
InitCollect ==
    /\ cPc = "idle"
    /\ cRules \in RuleSets
    /\ currentPage = 1 /\ allWords = <<>>
    /\ cRequests = <<>> /\ cResponses = <<>> /\ cPauses = <<>>
    /\ cErrorLogged = FALSE /\ cResult = <<>> /\ cNotice = FALSE
    /\ GeminiIdle /\ RulesIdle /\ ValidateIdle /\ MainIdle /\ ExtractIdle /\ FetchIdle

NextCollect ==
    \/ CollectStart
    \/ \E status \in Statuses : PageResponse(status)
    \/ PageNetworkFailure
    \/ \E html \in Htmls : PageTextRead(html)
    \/ PageTextFails
    \/ PauseEnds

SpecCollect == InitCollect /\ [][NextCollect]_vars

\* The runtime runs the function and ends its pauses; every page request
\* completes, with a response or a failure, and so does every reading of a
\* body. The chain of pages ends by page MaxPages (the guard of PageTextRead).
FairCollect ==
    /\ SpecCollect
    /\ WF_vars(CollectStart)
    /\ WF_vars(PauseEnds)
    /\ WF_vars((\E status \in Statuses : PageResponse(status)) \/ PageNetworkFailure)
    /\ WF_vars(PageTextFails \/ (\E html \in Htmls : PageTextRead(html)))

\* ---- parseRules, then checkRules, on a rule text and a token.
RuleLinesLibrary ==
    << "O AT 3", "A IN WORD", "NO S, T, R, E", "LENGTH: 5",
       "a in word, not at 1, 2, 3", "length: 6", "R AT 0", "g at 1",
       "NO A", "LENGTH: 0", "A IN WORD, NOT AT 12", "t in word, not at 0, 2",
       "NO ST, R", "O  AT 3", "E AT 3", "A AT 10" >>

ScenarioA == "O AT 3\nA IN WORD\nNO S, T, R, E\nLENGTH: 5"

RECURSIVE JoinLines(_)
JoinLines(ls) ==
    IF ls = <<>> THEN ""
    ELSE IF Len(ls) = 1 THEN RuleLinesLibrary[ls[1]]
    ELSE RuleLinesLibrary[ls[1]] \o "\n" \o JoinLines(Tail(ls))

\* The texts of up to MaxLines lines, and scenario A (lines 1 to 4).
LineChoices ==
    {<<1, 2, 3, 4>>} \cup UNION { [1 .. n -> DOMAIN RuleLinesLibrary] : n \in 0 .. MaxLines }

RuleTexts == {JoinLines(ls) : ls \in LineChoices}

Tokens == {"GROAN", "STORE", "AROMA", "ABOARD", "TITAN", "groan"}

InitRules ==
    /\ rPc = "start"
    /\ rLines \in LineChoices
    /\ dslRules = JoinLines(rLines)
    /\ word \in Tokens
    /\ rules = DefaultRules /\ verdict = FALSE
    /\ GeminiIdle /\ CollectIdle /\ ValidateIdle /\ MainIdle /\ ExtractIdle /\ FetchIdle

\* Line 472: const rules = parseRules(result.dsl_rules).
Compile ==
    /\ rPc = "start"
    /\ rules' = parseRules(dslRules)
    /\ rPc' = "compiled"
    /\ UNCHANGED <<rLines, dslRules, word, verdict>>
    /\ UNCHANGED <<gVars, cVars, vVars, mVars, xVars, fVars>>

\* Line 487: checkRules(word, rules).
Check ==
    /\ rPc = "compiled"
    /\ verdict' = checkRules(word, rules)
    /\ rPc' = "checked"
    /\ UNCHANGED <<rLines, dslRules, word, rules>>
    /\ UNCHANGED <<gVars, cVars, vVars, mVars, xVars, fVars>>

NextRules == Compile \/ Check

SpecRules == InitRules /\ [][NextRules]_vars

\* validateWordExistence, called up to MaxCalls times on one cache.
MaxCalls == 3
ValidateWords == {"AROMA", "aroma", "ABOARD", "Titan"}
RequiredLengths == {5, 6}

InitValidate == GeminiIdle /\ CollectIdle /\ RulesIdle /\ ValidateIdle /\ MainIdle /\ ExtractIdle /\ FetchIdle

NextValidate ==
    \/ \E w \in ValidateWords, n \in RequiredLengths :
          Len(vCalls) < MaxCalls /\ ValidateCall(w, n)
    \/ \E status \in Statuses : ValidateResponse(status)
    \/ ValidateNetworkFailure

SpecValidate == InitValidate /\ [][NextValidate]_vars

\* ---- extractWordsFromHtml, called with a page text and a word length.
MaxPieces == 2

\* Pieces of page text: a word, a word with bold markup inside it, a word in
\* a span flagged invalid, a word in such a span that has a line break
\* before its closing tag, a longer word, and a word followed by a digit.
HtmlLibrary ==
    << "AROMA ", "<b>GRO</b>AN ", "<span class=rd>TITAN</span> ",
       "<span class=rd>STORE\n</span> ", "ABOARD ", "AROMA2 " >>

RECURSIVE JoinPieces(_)
JoinPieces(ps) == IF ps = <<>> THEN "" ELSE HtmlLibrary[Head(ps)] \o JoinPieces(Tail(ps))

PieceChoices == UNION { [1 .. n -> DOMAIN HtmlLibrary] : n \in 0 .. MaxPieces }

InitExtract ==
    /\ xPc = "start"
    /\ xParts \in PieceChoices
    /\ xHtml = JoinPieces(xParts)
    /\ xWordLength \in WordLengths
    /\ xWords = <<>>
    /\ GeminiIdle /\ CollectIdle /\ RulesIdle /\ ValidateIdle /\ MainIdle /\ FetchIdle

\* Line 350: extractWordsFromHtml(html, rules.length).
Extract ==
    /\ xPc = "start"
    /\ xWords' = extractWordsFromHtml([body |-> xHtml, links |-> <<>>], xWordLength)
    /\ xPc' = "extracted"
    /\ UNCHANGED <<xParts, xHtml, xWordLength>>
    /\ UNCHANGED <<gVars, cVars, rVars, vVars, mVars, fVars>>

NextExtract == Extract

SpecExtract == InitExtract /\ [][NextExtract]_vars

\* ---- fetchWordListByPosition of test-wordlist-fetch.ts, called with a
\* rule set: the rules of its main (lines 290-293), rule sets with a tie,
\* with a later letter that has fewer allowed positions, with a letter that
\* has none, without any present letter, and with an exact entry.
Present(letter, positions) == [letter |-> letter, positions |-> positions]
FetchRuleSets ==
    { [exact |-> EmptyMap, absent |-> <<"C", "D", "E", "L", "O", "R", "S", "U", "Y">>, length |-> 5,
       present |-> <<Present("A", <<0, 1, 2>>), Present("T", <<1, 3>>)>>],
      [exact |-> EmptyMap, absent |-> <<>>, length |-> 5,
       present |-> <<Present("T", <<0, 1, 3>>), Present("A", <<0, 1, 2>>)>>],
      [exact |-> EmptyMap, absent |-> <<>>, length |-> 5,
       present |-> <<Present("A", <<>>), Present("T", <<0, 1, 2, 3>>)>>],
      [exact |-> EmptyMap, absent |-> <<>>, length |-> 5,
       present |-> <<Present("A", <<0, 1, 2, 3, 4>>), Present("T", <<1, 3, 11>>)>>],
      [exact |-> EmptyMap, absent |-> <<>>, length |-> 5,
       present |-> <<Present("A", <<4, 3, 2, 1, 0>>)>>],
      [exact |-> EmptyMap, absent |-> <<>>, length |-> 0,
       present |-> <<Present("A", <<>>)>>],
      [exact |-> EmptyMap, absent |-> <<>>, length |-> 5,
       present |-> <<Present("A", <<0>>)>>],
      DefaultRules,
      [exact |-> (2 :> "O") @@ (0 :> "A"), absent |-> <<>>, length |-> 6,
       present |-> <<Present("T", <<1>>)>>] }

WordLists == {<<"TITAN">>, <<"AROMA", "TITAN", "AROMA">>}

InitFetch ==
    /\ fPc = "idle" /\ fRules \in FetchRuleSets /\ fLetter = "" /\ fPositions = <<>>
    /\ fAllWords = <<>> /\ fRequests = <<>> /\ fOutcomes = <<>> /\ fResult = <<>>
    /\ GeminiIdle /\ CollectIdle /\ RulesIdle /\ ValidateIdle /\ MainIdle /\ ExtractIdle

NextFetch ==
    \/ FetchStart
    \/ \E words \in WordLists : FetchReturns(FALSE, words)
    \/ FetchReturns(TRUE, <<>>)

SpecFetch == InitFetch /\ [][NextFetch]_vars

(***************************************************************************)
(* main: translate, compile, collect, filter, validate                     *)
(***************************************************************************)
\* process.exit(1) after the messages of a failure.
MainExit(message) ==
    /\ mLog' = Append(mLog, message)
    /\ mExit' = <<1>>
    /\ mPc' = "exited"

\* Line 462: the default prompt, and what the command line may give instead.
DefaultPrompt ==
    "The word has 'A' in it, 'O' is the third letter, and no S, T, R, E, C, L, U, D"
Argv3 == {"", "O is the third letter"}

\* An error is thrown inside the try block of main.
MainThrow(message) == mPc' = "failed" /\ mError' = message

\* Lines 443-465: without a key main exits; otherwise generateDslRules is
\* called with the prompt of the command line or the default prompt.
MainStart(argv3) ==
    /\ mPc = "start"
    /\ IF ~apiKey
       THEN MainExit("ERROR: No API key provided.") /\ UNCHANGED prompt
       ELSE /\ mPc' = "translate"
            /\ prompt' = IF argv3 # "" THEN argv3 ELSE DefaultPrompt
            /\ UNCHANGED <<mLog, mExit>>
    /\ UNCHANGED <<dslResult, mError, candidateWords, mI, validWords, mChecked>>
    /\ UNCHANGED <<gVars, cVars, rVars, vVars, xVars, fVars>>

\* Lines 378-428: generateDslRules up to its call of handleGeminiApiCall; an
\* empty prompt throws.
GenerateStart ==
    /\ mPc = "translate"
    /\ IF prompt = ""
       THEN MainThrow("Please enter a rule description.")
       ELSE mPc' = "translating" /\ UNCHANGED mError
    /\ UNCHANGED <<prompt, dslResult, candidateWords, mI, validWords, mChecked, mLog, mExit>>
    /\ UNCHANGED <<gVars, cVars, rVars, vVars, xVars, fVars>>

ReplyLines ==
    {<<1, 2, 3, 4>>, <<1, 2>>, <<1, 6>>, <<1, 8>>, <<8, 1>>, <<1, 9>>, <<2>>, <<7>>, <<>>}
Replies ==
    {Reply(kind, <<>>) : kind \in {"notext", "badjson", "nodsl"}}
        \cup {Reply("rules", ls) : ls \in ReplyLines}

\* A fault: the answer is used as soon as its headers are in.
TranslationReturnedEarly == gPc \in {"body", "returned"}

\* Line 428: await handleGeminiApiCall(apiKey, payload).
TranslationReturned == gPc = "returned"

\* Lines 428-437: the text of the answer is parsed as JSON and returned; a
\* missing text and a text that is not JSON throw.
GenerateReturned(reply) ==
    /\ mPc = "translating" /\ TranslationReturned
    /\ IF reply.kind = "notext"
       THEN MainThrow("Error: Could not generate DSL.") /\ UNCHANGED dslResult
       ELSE IF reply.kind = "badjson"
       THEN MainThrow("SyntaxError") /\ UNCHANGED dslResult
       ELSE mPc' = "translated" /\ dslResult' = reply /\ UNCHANGED mError
    /\ UNCHANGED <<prompt, candidateWords, mI, validWords, mChecked, mLog, mExit>>
    /\ UNCHANGED <<gVars, cVars, rVars, vVars, xVars, fVars>>

\* Line 428: handleGeminiApiCall threw; generateDslRules lets the error out.
GenerateFailed ==
    /\ mPc = "translating" /\ gPc = "thrown"
    /\ MainThrow(gError.msg)
    /\ UNCHANGED <<prompt, dslResult, candidateWords, mI, validWords, mChecked, mLog, mExit>>
    /\ UNCHANGED <<gVars, cVars, rVars, vVars, xVars, fVars>>

\* Lines 465-478: result.dsl_rules is compiled and the rule set is handed to
\* fetchWordListByPosition; without dsl_rules parseRules throws a TypeError.
MainCompile ==
    /\ mPc = "translated"
    /\ IF dslResult.kind = "rules"
       THEN /\ rLines' = dslResult.lines
            /\ dslRules' = JoinLines(dslResult.lines)
            /\ rules' = parseRules(JoinLines(dslResult.lines))
            /\ rPc' = "compiled"
            /\ cRules' = parseRules(JoinLines(dslResult.lines))
            /\ mPc' = "collecting"
            /\ UNCHANGED mError
       ELSE /\ MainThrow("TypeError")
            /\ UNCHANGED <<rLines, dslRules, rules, rPc, cRules>>
    /\ UNCHANGED <<word, verdict>>
    /\ UNCHANGED <<cPc, currentPage, allWords, cRequests, cResponses, cPauses, cErrorLogged,
                   cResult, cNotice>>
    /\ UNCHANGED <<prompt, dslResult, candidateWords, mI, validWords, mChecked, mLog, mExit>>
    /\ UNCHANGED <<gVars, vVars, xVars, fVars>>

\* Lines 534-540: the catch block of main.
MainCatch ==
    /\ mPc = "failed"
    /\ MainExit(mError)
    /\ UNCHANGED <<prompt, dslResult, mError, candidateWords, mI, validWords, mChecked>>
    /\ UNCHANGED <<gVars, cVars, rVars, vVars, xVars, fVars>>

\* A fault: evaluating the words empties the rule set's absent list.
MainCollectedConsumingRules ==
    /\ mPc = "collecting" /\ cPc = "done"
    /\ IF cResult = <<>>
       THEN /\ mLog' = Append(mLog, "No words fetched. Exiting.")
            /\ mPc' = "done"
            /\ UNCHANGED <<candidateWords, mChecked, rules>>
       ELSE /\ mChecked' = cResult
            /\ candidateWords' = SelectSeq(cResult, LAMBDA w : checkRules(w, rules))
            /\ rules' = [rules EXCEPT !.absent = <<>>]
            /\ IF candidateWords' = <<>>
               THEN mLog' = Append(mLog, "No words match the constraints.") /\ mPc' = "done"
               ELSE mPc' = "validating" /\ UNCHANGED mLog
    /\ UNCHANGED <<prompt, dslResult, mError, mI, validWords, mExit>>
    /\ UNCHANGED <<rPc, rLines, dslRules, word, verdict>>
    /\ UNCHANGED <<gVars, cVars, vVars, xVars, fVars>>

\* Lines 478-506: the collected words are filtered with checkRules; an empty
\* list, collected or filtered, ends the run.
MainCollected ==
    /\ mPc = "collecting" /\ cPc = "done"
    /\ IF cResult = <<>>
       THEN /\ mLog' = Append(mLog, "No words fetched. Exiting.")
            /\ mPc' = "done"
            /\ UNCHANGED <<candidateWords, mChecked>>
       ELSE /\ mChecked' = cResult
            /\ candidateWords' = SelectSeq(cResult, LAMBDA w : checkRules(w, rules))
            /\ IF candidateWords' = <<>>
               THEN mLog' = Append(mLog, "No words match the constraints.") /\ mPc' = "done"
               ELSE mPc' = "validating" /\ UNCHANGED mLog
    /\ UNCHANGED <<prompt, dslResult, mError, mI, validWords, mExit>>
    /\ UNCHANGED <<gVars, cVars, rVars, vVars, xVars, fVars>>

\* Line 512: the call of the loop's current iteration.
MainValidate ==
    /\ mPc = "validating" /\ Len(vCalls) = mI
    /\ ValidateCall(candidateWords[mI + 1], rules.length)

\* A fault: the word is kept whatever the verdict.
MainValidatedKeepsAll ==
    /\ mPc = "validating" /\ vPc = "idle" /\ Len(vCalls) = mI + 1
    /\ validWords' = Append(validWords, candidateWords[mI + 1])
    /\ mPc' = "pausing"
    /\ UNCHANGED <<prompt, dslResult, mError, candidateWords, mI, mChecked, mLog, mExit>>
    /\ UNCHANGED <<gVars, cVars, rVars, vVars, xVars, fVars>>

\* Lines 512-522: the verdict is used, then the loop pauses 100 ms.
MainValidated ==
    /\ mPc = "validating" /\ vPc = "idle" /\ Len(vCalls) = mI + 1
    /\ IF vCalls[mI + 1].thrown
       THEN MainExit("Error") /\ UNCHANGED validWords
       ELSE /\ validWords' = IF vCalls[mI + 1].verdict[1]
                             THEN Append(validWords, candidateWords[mI + 1])
                             ELSE validWords
            /\ mPc' = "pausing"
            /\ UNCHANGED <<mLog, mExit>>
    /\ UNCHANGED <<prompt, dslResult, mError, candidateWords, mI, mChecked>>
    /\ UNCHANGED <<gVars, cVars, rVars, vVars, xVars, fVars>>

\* Lines 508 and 522-533: the pause ends; the loop goes on or main succeeds.
MainPauseEnds ==
    /\ mPc = "pausing"
    /\ mI' = mI + 1
    /\ IF mI + 1 < Len(candidateWords)
       THEN mPc' = "validating" /\ UNCHANGED mLog
       ELSE mPc' = "done" /\ mLog' = Append(mLog, "=== SUCCESS ===")
    /\ UNCHANGED <<prompt, dslResult, mError, candidateWords, validWords, mChecked, mExit>>
    /\ UNCHANGED <<gVars, cVars, rVars, vVars, xVars, fVars>>

\* The answers let to the translation service and to the dictionary in a run
\* of main; SpecGemini and SpecValidate let them every answer and failure.
PipelineStatuses == {200, 500}
DictStatuses == {200, NOT_FOUND}

\* main is entered with or without a key; handleGeminiApiCall gets its
\* parameter defaults.
Init ==
    /\ gPc = "idle" /\ apiKey \in BOOLEAN
    /\ maxRetries = DefaultMaxRetries /\ delay0 = DefaultDelay /\ delay = DefaultDelay
    /\ i = 0 /\ timers = {} /\ gAttempts = <<>> /\ gWaits = <<>> /\ gError = NoError
    /\ CollectIdle /\ RulesIdle /\ ValidateIdle
    /\ mPc = "start" /\ MainLocalsIdle /\ ExtractIdle /\ FetchIdle

Next ==
    \/ \E argv3 \in Argv3 : MainStart(argv3)
    \/ GenerateStart
    \/ mPc = "translating" /\ GeminiCall
    \/ mPc = "translating" /\ \E status \in PipelineStatuses : GeminiResponse(status)
    \/ mPc = "translating" /\ GeminiBodyParsed
    \/ mPc = "translating" /\ GeminiErrorBodyRead
    \/ mPc = "translating" /\ GeminiWaitEnds
    \/ \E reply \in Replies : GenerateReturned(reply)
    \/ GenerateFailed
    \/ MainCompile
    \/ MainCatch
    \/ mPc = "collecting" /\ NextCollect
    \/ MainCollected
    \/ MainValidate
    \/ mPc = "validating" /\ \E status \in DictStatuses : ValidateResponse(status)
    \/ MainValidated
    \/ MainPauseEnds

Spec == Init /\ [][Next]_vars

\* generateDslRules called with any key and any prompt.
InitTranslate ==
    /\ gPc = "idle" /\ apiKey \in BOOLEAN
    /\ maxRetries = DefaultMaxRetries /\ delay0 = DefaultDelay /\ delay = DefaultDelay
    /\ i = 0 /\ timers = {} /\ gAttempts = <<>> /\ gWaits = <<>> /\ gError = NoError
    /\ CollectIdle /\ RulesIdle /\ ValidateIdle
    /\ mPc = "translate" /\ prompt \in {"", DefaultPrompt}
    /\ dslResult = NoReply /\ mError = ""
    /\ candidateWords = <<>> /\ mI = 0 /\ validWords = <<>>
    /\ mChecked = <<>> /\ mLog = <<>> /\ mExit = <<>>
    /\ ExtractIdle /\ FetchIdle

NextTranslate ==
    \/ GenerateStart
    \/ mPc = "translating" /\ NextGemini
    \/ \E reply \in Replies : GenerateReturned(reply)
    \/ GenerateFailed

SpecTranslate == InitTranslate /\ [][NextTranslate]_vars

(***************************************************************************)
(* Properties of handleGeminiApiCall                                       *)
(***************************************************************************)
\* A response that is neither a success nor a rate limit.
IsFatalStatus(o) == o.kind = "status" /\ ~ResponseOk(o.status) /\ o.status # RATE_LIMIT

\* A 429, a timed-out attempt or a transport-level failure.
IsRetryable(o) ==
    \/ o.kind \in {"timeout", "network"}
    \/ o.kind = "status" /\ o.status = RATE_LIMIT

\* A backoff wait was started after the k-th attempt.
WaitAfter(k) == \E w \in DOMAIN gWaits : gWaits[w].after = k - 1

\* C1: a non-success response other than 429 is fatal on first occurrence:
\* the attempt that received it is the last one, no backoff wait follows it
\* and the call fails.
C1_FatalOnFirstOccurrence ==
    \A k \in DOMAIN gAttempts :
        IsFatalStatus(gAttempts[k]) =>
            /\ k = Len(gAttempts)
            /\ ~WaitAfter(k)
            /\ gPc \in {"errbody", "thrown"}

\* Every retryable failure with attempts left is followed by a wait of the
\* current delay and then by a new attempt; the k-th wait of a call lasts
\* delay0 * 2^(k-1), whatever failures caused the waits.
C7_Waits ==
    /\ \A k \in DOMAIN gWaits : gWaits[k] = [after |-> k - 1, ms |-> delay0 * 2^(k - 1)]
    /\ \A k \in DOMAIN gAttempts :
          (IsRetryable(gAttempts[k]) /\ k < maxRetries) =>
              /\ Len(gWaits) >= k
              /\ Len(gAttempts) = k => gPc \in {"sleeping", "fetching"}
    /\ gPc = "fetching" => (Len(gAttempts) = i /\ Len(gWaits) = i)
C7_WaitThenAttempt ==
    gPc = "sleeping" => (gPc' = "fetching" /\ i' = i + 1 /\ delay' = delay0 * 2^(i + 1))
\* C7: the waits of a call are delay0, 2*delay0, 4*delay0, ..., one after every
\* retryable failure with attempts left, each followed by a new attempt.
C7_BackoffDoubles == []C7_Waits /\ [][C7_WaitThenAttempt]_vars

C7_Witness ==
    /\ Len(gWaits) = 3 /\ delay0 = DefaultDelay /\ gPc = "fetching"
    /\ gAttempts[1].kind = "timeout"
    /\ gAttempts[2].kind = "status" /\ gAttempts[2].status = RATE_LIMIT
    /\ gAttempts[3].kind = "network"
    /\ gWaits[3].ms = 4000

\* C8: every call with maxRetries >= 1 eventually returns or throws, after at
\* most maxRetries attempts and at most maxRetries - 1 backoff waits.
C8_CallEnds ==
    (maxRetries >= 1) =>
        <>( /\ gPc \in {"returned", "thrown"}
            /\ Len(gAttempts) <= maxRetries
            /\ Len(gWaits) <= maxRetries - 1 )

\* C9: a timed-out attempt that is not the final one is retried; a timed-out
\* final attempt makes the call throw the timeout error (timed out after 20
\* seconds), not the AbortError and not the error of line 113.
C9_TimeoutRetriedOrSpecific ==
    \A k \in DOMAIN gAttempts :
        gAttempts[k].kind = "timeout" =>
            IF k = maxRetries
            THEN gPc = "thrown" /\ gError = [msg |-> "timed out after seconds", arg |-> 20]
            ELSE /\ Len(gWaits) >= k /\ gWaits[k].after = k - 1
                 /\ Len(gAttempts) = k => gPc \in {"sleeping", "fetching"}

C9_Witness ==
    /\ gPc = "thrown" /\ maxRetries = DefaultMaxRetries
    /\ Len(gAttempts) = maxRetries
    /\ gAttempts[1].kind = "timeout"
    /\ gAttempts[maxRetries].kind = "timeout"

(***************************************************************************)
(* Properties of fetchWordListByPosition                                   *)
(***************************************************************************)
IsPageFailure(r) ==
    \/ r.kind \in {"network", "textfail"}
    \/ r.kind = "status" /\ ~ResponseOk(r.status)
IsNotFoundLater(r) == r.kind = "status" /\ r.status = NOT_FOUND /\ r.page > 1
IsFatalPageFailure(r) == IsPageFailure(r) /\ ~IsNotFoundLater(r)
IsRateLimited(r) == r.kind = "status" /\ r.status = RATE_LIMIT

WordsOfPages(n) == UNION {Range(cResponses[k].words) : k \in 1 .. n}
NoDuplicates(s) == \A a, b \in DOMAIN s : s[a] = s[b] => a = b

C3_PagesInSequence ==
    /\ \A k \in DOMAIN cRequests : cRequests[k].page = k
    /\ Len(cRequests) - Len(cResponses) \in {0, 1}
    /\ \A k \in DOMAIN cResponses :
          cResponses[k].kind = "page" =>
              ( (Len(cRequests) > k \/ (cPc = "pausing" /\ currentPage = k + 1))
                  <=> cResponses[k].next = <<k + 1>> )

C3_Witness ==
    /\ cPc = "done" /\ Len(cRequests) = 3
    /\ cResponses[3].kind = "page"
    /\ cResponses[3].next = <<2>>

\* C4: a fatal failure of a page request (a non-success status that is not a
\* 404 after the first page, a network error, an unreadable body) makes the
\* collection return the empty list, whatever was gathered before.
C4_FatalFailureReturnsEmpty ==
    \A k \in DOMAIN cResponses :
        IsFatalPageFailure(cResponses[k]) =>
            k = Len(cResponses) /\ cPc = "done" /\ cResult = <<>>

C4_Witness ==
    /\ cPc = "done" /\ Len(cResponses) = 2
    /\ cResponses[2].kind = "status" /\ cResponses[2].status = 500
    /\ allWords # <<>>

\* C5 as stated: any failure of a page request after the first page ends the
\* collection normally with the words gathered so far.
C5_LaterFailuresEndNormally ==
    \A k \in DOMAIN cResponses :
        (IsPageFailure(cResponses[k]) /\ cResponses[k].page > 1) =>
            cPc = "done" /\ ~cErrorLogged /\ cResult = Unique(allWords)

\* C5, amended: a collection that ended on a failed page request ended
\* normally, with the words gathered so far, exactly when the failure is a 404
\* after the first page; on any other failure it logged an error and returned
\* the empty list.
C5_OnlyNotFoundEndsNormally ==
    (cPc = "done" /\ cResponses # <<>> /\ IsPageFailure(cResponses[Len(cResponses)])) =>
        IF IsNotFoundLater(cResponses[Len(cResponses)])
        THEN ~cErrorLogged /\ Range(cResult) = Range(allWords)
        ELSE cErrorLogged /\ cResult = <<>>

C5_Witness ==
    /\ cPc = "done" /\ Len(cResponses) = 2
    /\ cResponses[2].kind = "network"
    /\ allWords # <<>> /\ cResult = <<>>

\* C6: a 404 for page n > 1 ends pagination normally: the result is the
\* deduplicated words of pages 1..n-1 and no error is reported; a 404 for
\* page 1 gives the empty list.
C6_NotFoundEndsPagination ==
    \A k \in DOMAIN cResponses :
        (cResponses[k].kind = "status" /\ cResponses[k].status = NOT_FOUND) =>
            /\ k = Len(cResponses) /\ cPc = "done"
            /\ IF cResponses[k].page > 1
               THEN /\ ~cErrorLogged
                    /\ NoDuplicates(cResult)
                    /\ Range(cResult) = WordsOfPages(k - 1)
               ELSE cResult = <<>>

C6_Witness ==
    /\ cPc = "done" /\ Len(cResponses) = 3
    /\ cResponses[3].status = NOT_FOUND
    /\ cResult # <<>> /\ Len(cResult) < Len(allWords)

AllPagesSucceeded == \A k \in DOMAIN cResponses : cResponses[k].kind = "page"

\* C19: when every page request succeeds, the result holds each token at
\* most once and, as a set, is the union of the tokens of all fetched
\* pages; when page 1 declares next page 2 and page 2 declares none,
\* exactly pages 1 and 2 are requested.
C19_DeduplicatedUnion ==
    (cPc = "done" /\ AllPagesSucceeded) =>
        /\ NoDuplicates(cResult)
        /\ Range(cResult) = WordsOfPages(Len(cResponses))
        /\ (/\ Len(cResponses) >= 2
            /\ cResponses[1].next = <<2>>
            /\ cResponses[2].next = <<>>) =>
               /\ Len(cRequests) = 2
               /\ cRequests[1].page = 1 /\ cRequests[2].page = 2

\* Two pages were fetched and a token of page 1 came again on page 2.
C19_Witness ==
    /\ cPc = "done" /\ AllPagesSucceeded
    /\ Len(cRequests) = 2
    /\ cResponses[1].next = <<2>> /\ cResponses[2].next = <<>>
    /\ Range(cResponses[1].words) \cap Range(cResponses[2].words) # {}
    /\ Len(cResult) < Len(allWords)

(***************************************************************************)
(* Properties of parseRules and checkRules                                 *)
(***************************************************************************)
ScenarioAChecked == rPc = "checked" /\ dslRules = ScenarioA

\* C10 as stated: under the rules of scenario A the token GROAN passes.
C10_GroanPasses == (ScenarioAChecked /\ word = "GROAN") => verdict = TRUE

\* C10, amended: under the rules of scenario A the token GROAN is rejected:
\* it has the O at index 2 and contains the A, but it contains R, which the
\* text lists as absent.
C10_GroanRejected ==
    (ScenarioAChecked /\ word = "GROAN") =>
        /\ verdict = FALSE
        /\ rules.exact = (2 :> "O") /\ rules.length = 5
        /\ "R" \in Range(rules.absent)
        /\ Includes(Chars(word), "R")

C10_Witness == ScenarioAChecked /\ word = "GROAN" /\ verdict = FALSE


(***************************************************************************)
(* Properties of checkRules and parseRules                                 *)
(***************************************************************************)
\* The upper-cased token, its letters and the letters of the rule set.
UpperWord == toUpperCase(Chars(word))
LettersOf(w) == {w[k] : k \in DOMAIN w}
PresentLetters(rs) == {rs.present[k].letter : k \in DOMAIN rs.present}
PositionsOf(rs, letter) ==
    UNION { Range(rs.present[k].positions) : k \in {j \in DOMAIN rs.present : rs.present[j].letter = letter} }

\* The four checks, stated on the letters and positions of the token.
C11_Length == Len(UpperWord) = rules.length
C11_Exact ==
    \A p \in DOMAIN rules.exact : p < Len(UpperWord) /\ UpperWord[p + 1] = rules.exact[p]
C11_Absent == LettersOf(UpperWord) \cap Range(rules.absent) = {}
C11_Present ==
    \A l \in PresentLetters(rules) :
        /\ l \in LettersOf(UpperWord)
        /\ ~\E q \in PositionsOf(rules, l) : q < Len(UpperWord) /\ UpperWord[q + 1] = l

\* C11: checkRules accepts a token if and only if the upper-cased token has
\* the required length, has the required letter at every exact position,
\* contains no absent letter and, for every present letter, contains it and
\* does not have it at a disallowed position; one failed check rejects.
C11_AcceptsIffFourChecks ==
    rPc = "checked" =>
        (verdict <=> (C11_Length /\ C11_Exact /\ C11_Absent /\ C11_Present))

\* A token is rejected by the disallowed positions alone.
C11_Witness ==
    /\ rPc = "checked" /\ verdict = FALSE
    /\ C11_Length /\ C11_Exact /\ C11_Absent
    /\ PresentLetters(rules) \subseteq LettersOf(UpperWord)
    /\ ~C11_Present

\* C12: a rule set that lists a letter both as absent and as present
\* rejects every token, whatever the disallowed positions of the letter.
C12_AbsentAndPresentRejects ==
    (rPc = "checked" /\ Range(rules.absent) \cap PresentLetters(rules) # {}) =>
        verdict = FALSE

\* The conflicting letter alone rejects a token that has it.
C12_Witness ==
    /\ rPc = "checked" /\ verdict = FALSE
    /\ Range(rules.absent) \cap PresentLetters(rules) # {}
    /\ C11_Length /\ C11_Exact /\ C11_Present
    /\ PositionsOf(rules, "A") # {}

\* The stated effect of each line of RuleLinesLibrary, by its form.
C13_NoLetters == <<>>
C13_Line(form, letter, n, letters, positions) ==
    [form |-> form, letter |-> letter, n |-> n, letters |-> letters, positions |-> positions]
C13_Stated ==
    << C13_Line("exact", "O", 3, C13_NoLetters, <<>>),
       C13_Line("present", "A", 0, C13_NoLetters, <<>>),
       C13_Line("absent", "", 0, <<"S", "T", "R", "E">>, <<>>),
       C13_Line("length", "", 5, C13_NoLetters, <<>>),
       C13_Line("present", "A", 0, C13_NoLetters, <<0, 1, 2>>),
       C13_Line("length", "", 6, C13_NoLetters, <<>>),
       C13_Line("none", "", 0, C13_NoLetters, <<>>),
       C13_Line("exact", "G", 1, C13_NoLetters, <<>>),
       C13_Line("absent", "", 0, <<"A">>, <<>>),
       C13_Line("length", "", 0, C13_NoLetters, <<>>),
       C13_Line("present", "A", 0, C13_NoLetters, <<11>>),
       C13_Line("present", "T", 0, C13_NoLetters, <<1>>),
       C13_Line("absent", "", 0, <<"R">>, <<>>),
       C13_Line("none", "", 0, C13_NoLetters, <<>>),
       C13_Line("exact", "E", 3, C13_NoLetters, <<>>),
       C13_Line("none", "", 0, C13_NoLetters, <<>>) >>

\* A rule set as maps: present read as a map from letter to positions.
C13_AsMaps(rs) ==
    [exact |-> rs.exact,
     present |-> [l \in PresentLetters(rs) |->
                    rs.present[CHOOSE k \in DOMAIN rs.present : rs.present[k].letter = l].positions],
     absent |-> rs.absent,
     length |-> rs.length]

C13_Effect(e, line) ==
    CASE line.form = "exact"   -> [e EXCEPT !.exact = (line.n - 1 :> line.letter) @@ e.exact]
      [] line.form = "absent"  -> [e EXCEPT !.absent = e.absent \o line.letters]
      [] line.form = "present" -> [e EXCEPT !.present = (line.letter :> line.positions) @@ e.present]
      [] line.form = "length"  -> [e EXCEPT !.length = line.n]
      [] OTHER -> e

RECURSIVE C13_Effects(_, _)
C13_Effects(e, ls) ==
    IF ls = <<>> THEN e ELSE C13_Effects(C13_Effect(e, C13_Stated[Head(ls)]), Tail(ls))

C13_Expected ==
    C13_Effects([exact |-> EmptyMap, present |-> EmptyMap, absent |-> <<>>, length |-> 5], rLines)

C13_ScenarioA ==
    [exact |-> (2 :> "O"), present |-> ("A" :> <<>>),
     absent |-> <<"S", "T", "R", "E">>, length |-> 5]

\* C13: parseRules gives every recognized line its stated effect: a letter
\* at a position 1..9 is stored in exact under the position less one, the
\* letters of a NO line are appended to absent, a presence line sets the
\* entry of its letter and a LENGTH line sets length; the text of scenario
\* A compiles to exact {2: O}, present {A: []}, absent S, T, R, E, length 5.
C13_LinesHaveStatedEffect ==
    rPc # "start" =>
        /\ C13_AsMaps(rules) = C13_Expected
        /\ dslRules = ScenarioA => C13_AsMaps(rules) = C13_ScenarioA

\* Scenario A is compiled.
C13_Witness ==
    /\ rPc = "compiled" /\ dslRules = ScenarioA
    /\ DOMAIN rules.exact = {2} /\ Len(rules.absent) = 4 /\ Len(rules.present) = 1

\* C14: the length of every compiled rule set is at least 1.
C14_LengthPositive == rPc # "start" => rules.length >= 1

\* C15: every key of exact and every disallowed position of every present
\* entry of a compiled rule set lies in 0..8.
C15_PositionsInRange ==
    rPc # "start" =>
        /\ DOMAIN rules.exact \subseteq 0 .. 8
        /\ \A l \in PresentLetters(rules) : PositionsOf(rules, l) \subseteq 0 .. 8

(***************************************************************************)
(* Properties of validateWordExistence                                     *)
(***************************************************************************)
Returned(call) == call.verdict # <<>>
IsFinished(k) == k < Len(vCalls) \/ vPc = "idle"

\* A later call with the key of an earlier, returned call gives the same
\* verdict and makes no lookup.
C16_LaterCallsAgree ==
    \A a, b \in DOMAIN vCalls :
        (a < b /\ vCalls[a].key = vCalls[b].key /\ Returned(vCalls[a])) =>
            /\ vCalls[b].lookups = 0
            /\ vCalls[b].verdict = vCalls[a].verdict

\* No step changes or removes a cache entry.
C16_CacheKept ==
    \A key \in DOMAIN WORD_CACHE :
        key \in DOMAIN WORD_CACHE' /\ WORD_CACHE'[key] = WORD_CACHE[key]

\* C16: once validateWordExistence has returned a verdict for a key, every
\* later call with that key returns the same verdict without a lookup, a
\* true cached after a network failure included, and no cache entry is
\* ever overwritten or evicted.
C16_VerdictIsCachedForGood == []C16_LaterCallsAgree /\ [][C16_CacheKept]_vars

\* A network failure was answered true and a later call hit that entry.
C16_Witness ==
    \E a, b \in DOMAIN vCalls :
        /\ a < b /\ vCalls[a].key = vCalls[b].key
        /\ vCalls[a].outcome = "network" /\ vCalls[b].outcome = "hit"
        /\ vCalls[b].verdict = <<TRUE>>

\* C17: a call for a word of the required length with no cache entry makes
\* exactly one lookup and returns true on success, false on 404 and true
\* on any other status or a network failure; the verdict is cached and
\* the call does not throw.
C17_LookupVerdicts ==
    \A k \in DOMAIN vCalls :
        LET call == vCalls[k] IN
        (IsFinished(k) /\ call.outcome # "hit" /\ Len(call.word) = call.requiredLength) =>
            /\ call.lookups = 1
            /\ ~call.thrown
            /\ call.verdict =
                   IF call.outcome = "network" THEN <<TRUE>>
                   ELSE IF call.status \in 200 .. 299 THEN <<TRUE>>
                   ELSE IF call.status = 404 THEN <<FALSE>>
                   ELSE <<TRUE>>
            /\ call.key \in DOMAIN WORD_CACHE
            /\ <<WORD_CACHE[call.key]>> = call.verdict

\* Every kind of answer has been received by some call.
C17_Witness ==
    /\ vPc = "idle"
    /\ \E a, b, c \in DOMAIN vCalls :
          /\ vCalls[a].outcome = "network" /\ vCalls[a].verdict = <<TRUE>>
          /\ vCalls[b].status = 404 /\ vCalls[b].verdict = <<FALSE>>
          /\ vCalls[c].status \in {429, 500} /\ vCalls[c].verdict = <<TRUE>>

\* C18: a call for a word whose length differs from requiredLength, with
\* no cache entry for the key, caches and returns false without a lookup.
C18_MismatchIsFalse ==
    \A k \in DOMAIN vCalls :
        LET call == vCalls[k] IN
        (call.outcome # "hit" /\ Len(call.word) # call.requiredLength) =>
            /\ call.lookups = 0
            /\ call.verdict = <<FALSE>>
            /\ call.key \in DOMAIN WORD_CACHE /\ WORD_CACHE[call.key] = FALSE

\* A six-letter word was asked for with required length 5.
C18_Witness ==
    \E k \in DOMAIN vCalls :
        /\ vCalls[k].word = "aboard" /\ vCalls[k].requiredLength = 5
        /\ vCalls[k].outcome = "mismatch"

(***************************************************************************)
(* Properties of main                                                      *)
(***************************************************************************)
RulesCompiledInMain == mPc \in {"collecting", "validating", "pausing", "done"}

\* C20: when the compiled rule set has no exact-position entry, main ends
\* with an empty result and a diagnostic: no page of the word source is
\* requested, no token is given to checkRules and no validation call or
\* lookup is made.
C20_NoExactEndsEmpty ==
    (RulesCompiledInMain /\ DOMAIN rules.exact = {}) =>
        /\ cRequests = <<>> /\ cResponses = <<>>
        /\ mChecked = <<>> /\ candidateWords = <<>>
        /\ vCalls = <<>> /\ validWords = <<>>
        /\ mExit = <<>>
        /\ mPc \in {"collecting", "done"}
        /\ cPc = "done" => (cResult = <<>> /\ cNotice)
        /\ mPc = "done" =>
              (cPc = "done" /\ mLog = <<"No words fetched. Exiting.">>)

\* main has ended on a rule text that holds a presence line only.
C20_Witness ==
    /\ mPc = "done" /\ rLines = <<2>>
    /\ DOMAIN rules.exact = {} /\ rules.present # <<>>
    /\ cNotice /\ mLog # <<>>

\* The lowest key of exact.
LowestExact(rs) == CHOOSE p \in DOMAIN rs.exact : \A q \in DOMAIN rs.exact : p <= q

\* C21: with several exact-position entries, every page request is built
\* from the entry with the lowest position index, in whatever order the
\* exact lines stood in the rule text.
C21_LowestExactIsSeed ==
    /\ \A k \in DOMAIN cRequests :
          /\ cRequests[k].position = LowestExact(rules)
          /\ cRequests[k].letter = rules.exact[LowestExact(rules)]
    /\ (rLines \in {<<1, 8>>, <<8, 1>>} /\ cRequests # <<>>) =>
          (cRequests[1].position = 0 /\ cRequests[1].letter = "G")

\* The text names position 3 first and position 1 second; page 1 was
\* asked for with the letter of position 1.
C21_Witness ==
    /\ rLines = <<1, 8>> /\ DOMAIN rules.exact = {0, 2}
    /\ cRequests # <<>> /\ cRequests[1].positionName = "first"

\* The words of the pages, and each of them in small letters.
PageWords ==
    UNION { Range(extractWordsFromHtml([body |-> body, links |-> <<>>], n)) :
              body \in PageBodies, n \in {5, 6} }
InSmallLetters == [w \in PageWords |-> Concat(toLowerCase(Chars(w)))]

\* The network operations in flight: a translation attempt (request sent or
\* body being read), a page request, a dictionary lookup.
AttemptInFlight == gPc \in {"fetching", "body", "errbody"}
PageInFlight == cPc \in {"fetching", "reading"}
LookupInFlight == vPc = "fetching"
InFlight ==
    (IF AttemptInFlight THEN 1 ELSE 0) + (IF PageInFlight THEN 1 ELSE 0)
        + (IF LookupInFlight THEN 1 ELSE 0)

\* C22: in a run of main at most one network operation is in flight; page
\* requests start only after the translation call has returned and are
\* numbered 1..n, validation calls start only after the collection has
\* finished and follow the order of the candidates.
C22_OneOperationInOrder ==
    /\ InFlight <= 1
    /\ cRequests # <<>> => gPc = "returned"
    /\ \A k \in DOMAIN cRequests : cRequests[k].page = k
    /\ vCalls # <<>> => (cPc = "done" /\ gPc = "returned")
    /\ Len(vCalls) <= Len(candidateWords)
    /\ \A k \in DOMAIN vCalls : vCalls[k].word = InSmallLetters[candidateWords[k]]

\* The second lookup is in flight after two translation attempts and two
\* pages.
C22_Witness ==
    /\ LookupInFlight /\ Len(vCalls) = 2
    /\ Len(cRequests) >= 2 /\ Len(gAttempts) >= 2

RECURSIVE C23_Kept(_)
\* The first n candidates whose validation call returned true, in order.
C23_Kept(n) ==
    IF n = 0 THEN <<>>
    ELSE C23_Kept(n - 1)
            \o (IF vCalls[n].verdict = <<TRUE>> THEN <<candidateWords[n]>> ELSE <<>>)

\* C23: when main has ended, the words it emits are exactly the collected
\* words that pass checkRules and for which validateWordExistence returned
\* true, in collection order; validateWordExistence was called once for
\* each word that passed checkRules, with the length of the rule set, and
\* for no other word.
C23_EmittedAreCheckedAndValid ==
    mPc = "done" =>
        /\ candidateWords = SelectSeq(cResult, LAMBDA w : checkRules(w, rules))
        /\ Len(vCalls) = Len(candidateWords)
        /\ \A k \in DOMAIN vCalls :
              /\ vCalls[k].word = InSmallLetters[candidateWords[k]]
              /\ vCalls[k].requiredLength = rules.length
        /\ validWords = C23_Kept(Len(candidateWords))

\* A collected word failed checkRules, a candidate was refused by the
\* dictionary and another was accepted.
C23_Witness ==
    /\ mPc = "done"
    /\ validWords # <<>>
    /\ Len(validWords) < Len(candidateWords)
    /\ Len(candidateWords) < Len(cResult)

\* No request has been sent to any of the three services, and none is
\* pending or scheduled.
NoRequestIssued ==
    /\ gAttempts = <<>> /\ gWaits = <<>> /\ timers = {} /\ ~AttemptInFlight
    /\ cRequests = <<>> /\ ~PageInFlight
    /\ vCalls = <<>> /\ ~LookupInFlight

\* C24: with a missing key or an empty prompt the run fails at once with
\* an error: nothing is retried and no request is sent to the translation
\* service, the word source or the dictionary.
C24_MissingInputFailsAtOnce ==
    /\ (mPc # "start" /\ prompt = "") =>
          /\ NoRequestIssued /\ gPc = "idle"
          /\ mPc \in {"translate", "failed", "exited"}
          /\ mPc = "failed" => mError = "Please enter a rule description."
    /\ (~apiKey /\ prompt # "") =>
          /\ NoRequestIssued /\ gPc \in {"idle", "thrown"}
          /\ mPc \in {"translate", "translating", "failed"}
          /\ gPc = "thrown" => gError.msg = "API Key is required"
          /\ mPc = "failed" => mError = "API Key is required"

\* generateDslRules has failed for the missing key.
C24_Witness ==
    /\ ~apiKey /\ prompt # ""
    /\ mPc = "failed" /\ gPc = "thrown" /\ mError = "API Key is required"

(***************************************************************************)
(* Relations between rule texts                                            *)
(***************************************************************************)
\* Line 14 of RuleLinesLibrary is line 1 with a second space between its
\* first two tokens; the other lines have no added space.
C25_WithoutAddedSpaces(ls) == [k \in DOMAIN ls |-> IF ls[k] = 14 THEN 1 ELSE ls[k]]

\* C25: spaces added at the start or end of a recognized line or between
\* its tokens do not change the compiled rule set.
C25_AddedSpacesIgnored ==
    rPc # "start" => rules = parseRules(JoinLines(C25_WithoutAddedSpaces(rLines)))

\* A text in capitals and in small letters.
C26_Capital(c) ==
    IF \E k \in DOMAIN LowerLetters : LowerLetters[k] = c
    THEN UpperLetters[CHOOSE k \in DOMAIN LowerLetters : LowerLetters[k] = c]
    ELSE c
C26_InCapitals(text) == Concat([k \in 1 .. Len(text) |-> C26_Capital(SubSeq(text, k, k))])
C26_InSmallLetters(text) == Concat(toLowerCase(Chars(text)))

C31_Changed(a, b) ==
    {f \in {"exact", "absent", "present", "length"} : a[f] # b[f]}

\* The rule sets a text goes through: the default rule set, then the rule
\* set after each line in turn.
RECURSIVE C31_Trace(_, _)
C31_Trace(rs, ls) ==
    IF ls = <<>> THEN <<rs>>
    ELSE <<rs>> \o C31_Trace(CompileLines(rs, RuleLines(Chars(RuleLinesLibrary[Head(ls)]))),
                             Tail(ls))

\* C31: every line of a text changes at most one of the fields exact,
\* absent, present and length, namely the field of the one pattern, in the
\* order exact, absent, present, length, that classifies it; a line that
\* no pattern classifies changes none.
C31_OneFieldPerLine ==
    rPc = "compiled" =>
        \A trace \in {C31_Trace(DefaultRules, rLines)} :
            /\ rules = trace[Len(trace)]
            /\ \A k \in DOMAIN rLines :
                  \A changed \in {C31_Changed(trace[k], trace[k + 1])} :
                      /\ Cardinality(changed) <= 1
                      /\ changed \subseteq {C13_Stated[rLines[k]].form}

\* Scenario A is compiled: its exact, presence and absent lines each changed
\* their own field and nothing else.
C31_Witness ==
    /\ rPc = "compiled" /\ rLines = <<1, 2, 3, 4>>
    /\ \A trace \in {C31_Trace(DefaultRules, rLines)} :
          /\ C31_Changed(trace[1], trace[2]) = {"exact"}
          /\ C31_Changed(trace[2], trace[3]) = {"present"}
          /\ C31_Changed(trace[3], trace[4]) = {"absent"}
          /\ C31_Changed(trace[4], trace[5]) = {}

(***************************************************************************)
(* Lines that are dropped                                                  *)
(***************************************************************************)
\* The lines of RuleLinesLibrary that have the exact form with a position
\* outside 1..9: `R AT 0` and `A AT 10`.
C32_OutOfRange == {7, 16}

C32_Without(ls, dropped) == SelectSeq(ls, LAMBDA l : l \notin dropped)

\* C32: an exact line with a position outside 1..9 adds nothing to the rule
\* set, and the other lines of the text compile as they do without it.
C32_OutOfRangeExactDropped ==
    rPc = "compiled" =>
        /\ rules = parseRules(JoinLines(C32_Without(rLines, C32_OutOfRange)))
        /\ (\A k \in DOMAIN rLines : rLines[k] \in C32_OutOfRange) => rules = DefaultRules

\* `O AT 3` is compiled after `R AT 0`, and before `A AT 10`.
C32_Witness ==
    /\ rPc = "compiled" /\ rLines \in {<<7, 1>>, <<1, 16>>}
    /\ rules.exact = (2 :> "O")

\* The lines of RuleLinesLibrary that none of the four patterns matches:
\* `O  AT 3` and `A AT 10`.
C33_Unrecognized == {14, 16}

\* C33: a line that matches none of the four patterns is ignored: the text
\* compiles as it does without such lines, and a text that is empty or has
\* only such lines compiles to the default rule set: nothing in exact,
\* present and absent, length 5.
C33_UnrecognizedIgnored ==
    rPc = "compiled" =>
        /\ rules = parseRules(JoinLines(C32_Without(rLines, C33_Unrecognized)))
        /\ (\A k \in DOMAIN rLines : rLines[k] \in C33_Unrecognized) =>
              /\ DOMAIN rules.exact = {} /\ rules.present = <<>>
              /\ rules.absent = <<>> /\ rules.length = 5

\* A text of one recognized and one unrecognized line, and a text of
\* unrecognized lines only, are compiled.
C33_Witness ==
    /\ rPc = "compiled"
    /\ \/ rLines = <<3, 16>> /\ Len(rules.absent) = 4
       \/ rLines = <<14, 16>> /\ rules = DefaultRules

(***************************************************************************)
(* Several lines for one key                                               *)
(***************************************************************************)
\* The places in the text of the lines recognized as exact lines for a
\* one-based position, as presence lines for a letter and as length lines,
\* and the last of a set of places.
C34_ExactWriters(n) ==
    {k \in DOMAIN rLines : C13_Stated[rLines[k]].form = "exact" /\ C13_Stated[rLines[k]].n = n}
C34_PresentWriters(letter) ==
    {k \in DOMAIN rLines :
        C13_Stated[rLines[k]].form = "present" /\ C13_Stated[rLines[k]].letter = letter}
C34_LengthWriters == {k \in DOMAIN rLines : C13_Stated[rLines[k]].form = "length"}
C34_Last(K) == C13_Stated[rLines[CHOOSE k \in K : \A j \in K : j <= k]]

\* C34: of several lines that target the same exact position, the same
\* present letter or the length, the last one in the text alone gives the
\* stored value; the disallowed positions of a letter are those of its last
\* presence line, empty when that line lists none.
C34_LastWriterWins ==
    rPc = "compiled" =>
        /\ \A p \in DOMAIN rules.exact :
              LET K == C34_ExactWriters(p + 1)
              IN  K # {} /\ rules.exact[p] = C34_Last(K).letter
        /\ \A k \in DOMAIN rules.present :
              LET K == C34_PresentWriters(rules.present[k].letter)
              IN  K # {} /\ rules.present[k].positions = C34_Last(K).positions
        /\ rules.length = IF C34_LengthWriters = {} THEN 5 ELSE C34_Last(C34_LengthWriters).n

\* A later exact line took over position 3, a presence line without
\* exclusions emptied the positions of an earlier one, or a later length
\* replaced an earlier one.
C34_Witness ==
    /\ rPc = "compiled"
    /\ \/ rLines = <<1, 15>> /\ rules.exact = (2 :> "E")
       \/ rLines = <<5, 2>> /\ rules.present = <<[letter |-> "A", positions |-> <<>>]>>
       \/ rLines = <<6, 4>> /\ rules.length = 5

(***************************************************************************)
(* Presence with excluded positions                                        *)
(***************************************************************************)
\* The zero-based indexes the text excludes for a letter: the one-based
\* positions of the last presence line of the letter, each less one.
C35_Excluded(letter) ==
    IF C34_PresentWriters(letter) = {} THEN {}
    ELSE Range(C34_Last(C34_PresentWriters(letter)).positions)

\* The token has every letter the text requires, and none of them at an
\* index the text excludes for it.
C35_OnlyAtAllowedIndexes ==
    \A l \in Range(UpperLetters) :
        C34_PresentWriters(l) # {} =>
            /\ l \in LettersOf(UpperWord)
            /\ \A q \in C35_Excluded(l) : ~(q < Len(UpperWord) /\ UpperWord[q + 1] = l)

\* C35: the positions of a presence line are stored zero-based, `A IN WORD,
\* NOT AT 1, 2, 3` as present A = [0, 1, 2]; a token that has the letter
\* only at other indexes is not rejected by the presence check, so TITAN
\* (A at index 3) is accepted under that line alone.
C35_ExcludedPositionsZeroBased ==
    rPc = "checked" =>
        /\ rLines = <<5>> =>
              /\ rules.present = <<[letter |-> "A", positions |-> <<0, 1, 2>>]>>
              /\ word = "TITAN" => verdict = TRUE
        /\ C35_OnlyAtAllowedIndexes =>
              (verdict <=> (C11_Length /\ C11_Exact /\ C11_Absent))

\* TITAN was checked under `a in word, not at 1, 2, 3`.
C35_Witness ==
    /\ rPc = "checked" /\ rLines = <<5>> /\ word = "TITAN"
    /\ UpperWord[4] = "A" /\ verdict = TRUE

(***************************************************************************)
(* Frame of checkRules in main                                             *)
(***************************************************************************)
\* A step after compilation leaves the rule set as it is. The step that
\* evaluates the tokens changes neither the rule set, the collected list
\* nor the validation cache, and makes a token a candidate exactly when
\* checkRules accepts it under the rule set, wherever the token stands in
\* the list; later steps keep the candidates.
C27_Frame ==
    /\ RulesCompiledInMain => (rules = cRules /\ rules' = rules /\ cRules' = cRules)
    /\ mChecked' # mChecked =>
          /\ rules' = rules /\ cRules' = cRules
          /\ mChecked' = cResult /\ cResult' = cResult /\ allWords' = allWords
          /\ WORD_CACHE' = WORD_CACHE /\ vCalls' = vCalls
          /\ \A k \in DOMAIN cResult :
                (\E c \in DOMAIN candidateWords' : candidateWords'[c] = cResult[k])
                    <=> checkRules(cResult[k], rules)
    /\ mChecked # <<>> => (mChecked' = mChecked /\ candidateWords' = candidateWords)

\* C27: checkRules is deterministic and free of side effects: it leaves
\* the rule set, the collected list and the validation cache unchanged,
\* its verdict depends on the token and the rule set only, and no step of
\* main changes the rule set after parseRules returned it.
C27_CheckRulesIsPure == [][C27_Frame]_vars

\* Tokens were evaluated, some accepted and some rejected, and validation
\* has gone on since.
C27_Witness ==
    /\ mPc = "done" /\ vCalls # <<>>
    /\ candidateWords # <<>> /\ Len(candidateWords) < Len(mChecked)
    /\ rules.absent # <<>>

(***************************************************************************)
(* The attempt timer of handleGeminiApiCall                                *)
(***************************************************************************)
\* C28: the cancellation timer of an attempt is armed for as long as the
\* attempt is in flight, the reading of the response body included, so no
\* attempt outlasts the timeout.
C28_TimerCoversAttempt == AttemptInFlight => i \in timers

\* C29: the timer of an attempt is cleared when the attempt resolves or
\* fails: at most one timer is armed, it is the timer of the attempt in
\* progress, none is armed during a backoff wait or after the call, and
\* an attempt that timed out before the last one is followed by a wait
\* and a further attempt.
C29_TimerScopedToAttempt ==
    /\ Cardinality(timers) <= 1
    /\ timers # {} => (timers = {i} /\ gPc = "fetching")
    /\ gPc \in {"idle", "sleeping", "returned", "thrown"} => timers = {}
    /\ \A k \in DOMAIN gAttempts :
          (gAttempts[k].kind = "timeout" /\ k < maxRetries) =>
              /\ \E w \in DOMAIN gWaits : gWaits[w].after = k - 1
              /\ ~(gPc = "thrown" /\ Len(gAttempts) = k)

\* Attempt 0 timed out and attempt 1 is in flight with its own timer.
C29_Witness ==
    /\ Len(gAttempts) = 1 /\ gAttempts[1].kind = "timeout"
    /\ gPc = "fetching" /\ i = 1 /\ timers = {1}

(***************************************************************************)
(* Undecodable answers of the translation service                          *)
(***************************************************************************)
\* The answer had no text or its text was not JSON (lines 429-437).
TextUndecodable == mPc \in {"failed", "exited"} /\ mError \in {"Error: Could not generate DSL.", "SyntaxError"}

\* C30: an answer of the translation service without a text payload, or
\* with a payload that cannot be decoded, fails the run with one terminal
\* error: the translation call is not retried, no rule set is compiled and
\* no page of the word source is requested.
C30_UndecodableIsFatal ==
    /\ \A k \in DOMAIN gAttempts :
          gAttempts[k].kind = "bodyfail" =>
              /\ k = Len(gAttempts)
              /\ gPc = "thrown"
              /\ \A w \in DOMAIN gWaits : gWaits[w].after # k - 1
    /\ TextUndecodable =>
          /\ gPc = "returned"
          /\ rPc = "start" /\ rules = DefaultRules
          /\ cRequests = <<>> /\ cPc = "idle"

(***************************************************************************)
(* Token extraction                                                        *)
(***************************************************************************)
\* For each piece of HtmlLibrary: the runs of capital letters it shows
\* outside spans flagged invalid, once bold markup is stripped, and the
\* tokens it has inside such spans.
C36_Shown == << <<"AROMA">>, <<"GROAN">>, <<>>, <<>>, <<"ABOARD">>, <<"AROMA">> >>
C36_Hidden == << {}, {}, {"TITAN"}, {"STORE"}, {}, {} >>

RECURSIVE C36_ShownIn(_)
C36_ShownIn(ps) == IF ps = <<>> THEN <<>> ELSE C36_Shown[Head(ps)] \o C36_ShownIn(Tail(ps))

\* C36: extraction strips bold markup, discards the content of every span
\* flagged invalid and returns the runs of exactly wordLength capital
\* letters that remain, and nothing else: every returned token has that
\* length, and a token that is only inside invalid spans is not returned.
C36_ExtractsShownRunsOnly ==
    xPc = "extracted" =>
        /\ \A k \in DOMAIN xWords : Len(xWords[k]) = xWordLength
        /\ xWords = SelectSeq(C36_ShownIn(xParts), LAMBDA w : Len(w) = xWordLength)
        /\ \A k \in DOMAIN xParts :
              \A w \in C36_Hidden[xParts[k]] :
                 w \notin Range(C36_ShownIn(xParts)) => w \notin Range(xWords)

(***************************************************************************)
(* Pauses between requests                                                 *)
(***************************************************************************)
\* A step that issues the request for a page after the first is the end of a
\* pause of 100 ms that began when the page before it had been processed;
\* a pause begins only when a further page follows, so the step that ends
\* the collection takes none. A validation call after the first begins at
\* the end of the pause that followed the call before it.
C37_Step ==
    /\ (Len(cRequests') > Len(cRequests) /\ Len(cRequests) >= 1) =>
          /\ cPc = "pausing"
          /\ Len(cPauses) = Len(cRequests)
          /\ cPauses[Len(cPauses)] = <<Len(cRequests), 100>>
          /\ cResponses[Len(cRequests)].kind = "page"
          /\ cPauses' = cPauses
    /\ Len(cPauses') > Len(cPauses) =>
          /\ cPc = "reading" /\ cPc' = "pausing"
          /\ Len(cPauses') = Len(cRequests)
          /\ cResponses'[Len(cRequests)].next = <<Len(cRequests) + 1>>
    /\ (cPc' = "done" /\ cPc # "done") =>
          /\ cPauses' = cPauses
          /\ Len(cPauses) = IF cRequests = <<>> THEN 0 ELSE Len(cRequests) - 1
    /\ (Len(vCalls') > Len(vCalls) /\ Len(vCalls) >= 1) =>
          mPc = "validating" /\ mI = Len(vCalls)
    /\ mI' # mI => (mPc = "pausing" /\ mI' = mI + 1 /\ Len(vCalls) = mI + 1)

\* C37: consecutive page requests of a collection are separated by a pause
\* of 100 ms taken after the earlier page was processed, no pause follows
\* the last page, and consecutive validation calls are separated by a pause.
C37_PausesBetweenRequests == [][C37_Step]_vars

\* Two pages were requested with one pause between them, and a second
\* validation call was made after the pause that followed the first.
C37_Witness ==
    /\ Len(cRequests) = 2 /\ Len(cPauses) = 1 /\ cPc = "done"
    /\ Len(vCalls) = 2 /\ mI = 1

C39_AcceptedTokensAreInSeedList ==
    (rPc = "checked" /\ verdict /\ DOMAIN rules.exact # {}) =>
        \A seed \in {PageRequest(rules, 1)} :
            /\ seed.position + 1 <= Len(UpperWord)
            /\ UpperWord[seed.position + 1] = seed.letter
            /\ Len(UpperWord) = seed.length

\* GROAN is accepted under `g at 1` and `O AT 3`; the seed is G at index 0.
C39_Witness ==
    /\ rPc = "checked" /\ verdict /\ DOMAIN rules.exact = {0, 2}
    /\ PageRequest(rules, 1).letter = "G" /\ PageRequest(rules, 1).position = 0

(***************************************************************************)
(* Seeding by a present letter                                             *)
(***************************************************************************)
\* The indexes of the word a present entry leaves open, the entries that
\* leave at least one open, and the first of those that leave the fewest.
C40_Open(k) == (0 .. fRules.length - 1) \ Range(fRules.present[k].positions)
C40_Usable == {k \in DOMAIN fRules.present : C40_Open(k) # {}}
C40_Seed ==
    CHOOSE k \in C40_Usable :
        \A j \in C40_Usable :
            \/ Cardinality(C40_Open(k)) < Cardinality(C40_Open(j))
            \/ Cardinality(C40_Open(k)) = Cardinality(C40_Open(j)) /\ k <= j

\* C40: without an exact entry the word lists are asked for the present
\* letter that leaves the fewest positions open, the first such letter on
\* ties, one list for each open position, one after the other in ascending
\* order; the result is the union, without duplicates, of the lists that
\* were fetched without failure; with no such letter nothing is asked for
\* and the result is empty.
C40_SeededByBestPresentLetter ==
    (fPc # "idle" /\ DOMAIN fRules.exact = {}) =>
        IF C40_Usable = {}
        THEN fRequests = <<>> /\ fPc = "done" /\ fResult = <<>>
        ELSE /\ \A j \in DOMAIN fRequests :
                  /\ fRequests[j].letter = fRules.present[C40_Seed].letter
                  /\ fRequests[j].position \in C40_Open(C40_Seed)
                  /\ fRequests[j].length = fRules.length
                  /\ \A h \in 1 .. j - 1 : fRequests[h].position < fRequests[j].position
             /\ Len(fRequests) = Len(fOutcomes) + (IF fPc = "fetching" THEN 1 ELSE 0)
             /\ fPc = "done" =>
                  /\ Len(fRequests) = Cardinality(C40_Open(C40_Seed))
                  /\ Range(fResult) =
                        UNION { Range(fOutcomes[j].words) :
                                  j \in {h \in DOMAIN fOutcomes : ~fOutcomes[h].failed} }
                  /\ NoDuplicates(fResult)

\* Two letters leave two positions open each and the first one, T, was the
\* seed; one of its two lists failed, the other had a word twice.
C40_Witness ==
    /\ fPc = "done" /\ DOMAIN fRules.exact = {}
    /\ Len(fRules.present) = 2 /\ fRules.present[1].letter = "T"
    /\ Cardinality(C40_Open(1)) = Cardinality(C40_Open(2))
    /\ fLetter = "T" /\ Len(fRequests) = 2
    /\ \E j \in DOMAIN fOutcomes : fOutcomes[j].failed
    /\ Len(fResult) = 2 /\ Len(fAllWords) = 3
====
